---- MODULE Spec2Model ----
(***************************************************************************)
(* PolyGlot: the request pipeline of ApiManager (ApiManager.js) and the    *)
(* live-translation coordinator of TranslationEngine / EventManager        *)
(* (TranslationEngine.js, EventManager.js).                                *)
(*                                                                         *)
(* Strings the code inspects (trim, startsWith, includes) are sequences:   *)
(* texts and keys are sequences of one-character strings, error messages   *)
(* are sequences of words.  The specifications of the module:              *)
(*   PipeSpec     one logical ApiManager request with its retries;         *)
(*   PayloadSpec  the request bodies built for texts of every length;      *)
(*   Spec         the coordinator: input events, timers, calls in flight;  *)
(*   LangSpec     the coordinator under language changes and swaps;        *)
(*   VoiceSpec    voice input and speech output;                           *)
(*   HistorySpec  the translation history;                                 *)
(*   KeySpec      saving the API key;                                      *)
(*   DetectSpec   language detection after a translation;                  *)
(*   SwapSpec     consecutive language swaps;                              *)
(*   DebounceSpec a function wrapped by PerformanceUtils.debounce.         *)
(***************************************************************************)
EXTENDS Integers, Sequences, FiniteSets, TLC

VARIABLES
    apiManager,     \* ApiManager fields: apiKey, baseUrl, requestTimeout, maxRetries
    pc,             \* position of the pipeline request: idle, fetching, backoff, done
    request,        \* the ApiManager call: op, text, languages
    payload,        \* the body handed to #makeApiRequest
    retryCount,     \* #makeApiRequest's retryCount parameter of the running frame
    lastEvent,      \* how the latest fetch settled (response, rejection, abort)
    attempts,       \* class of every settled attempt, in order
    trace,          \* network calls and backoff delays, in order
    outcome,        \* how the ApiManager promise settled
    sourceText,     \* #source-text value
    targetText,     \* #target-text value
    detectedLanguage,       \* #detected-language text
    translationStatus,      \* #translation-status text
    loadingShown,   \* #loading is not hidden
    liveCheckbox,   \* #live-translate checked
    currentLanguages,       \* TranslationEngine.currentLanguages
    languageSelects,        \* values of #source-language and #target-language
    liveTranslateEnabled,   \* TranslationEngine.liveTranslateEnabled
    debounceTimer,  \* TranslationEngine.debounceTimer: a timer handle, 0 for null
    timers,         \* the browser's pending timeouts: handle and ms left
    calls,          \* the translateText calls that reached the pipeline, in order
    detectPending,  \* detectLanguage calls in flight
    detectText,     \* the text of the latest detectLanguage call, <<>> if none
    translationHistory,     \* HistoryManager.translationHistory
    toast,          \* the latest notification, and the call whose failure raised it
    targetWrite,    \* the call whose result #target-text shows, 0 if none
    burst,          \* since the latest source-text input event: ms passed, timer
                    \* firings, pipeline calls they issued; live mode at the event;
                    \* events: 2 if the event came while a timeout was pending
    storedApiKey,   \* localStorage item 'openai-api-key', <<>> if absent
    voice,          \* VoiceController: isListening; the recognition's state
                    \* (inactive, starting, active, stopping) and lang; the lang
                    \* of the latest utterance
    swapLog,        \* the latest one or two consecutive swapLanguages calls: the
                    \* texts and selections before the first and after the last
    debounced       \* a function returned by PerformanceUtils.debounce: immediate;
                    \* timeout (a timer handle, 0 for null); the pending timeouts
                    \* with the arguments their callbacks hold; whether it was
                    \* called, the latest call's arguments, the ms since it and
                    \* the ms between it and the call before; the runs of func
                    \* since a call found no timeout pending and the arguments
                    \* of the latest run; the latest step and whether func ran
                    \* in it

pipeVars == <<apiManager, pc, request, payload, retryCount, lastEvent, attempts,
              trace, outcome>>

pipeOnlyVars == <<pc, request, payload, retryCount, lastEvent, attempts, trace, outcome>>

coordVars == <<sourceText, targetText, detectedLanguage, translationStatus,
               loadingShown, liveCheckbox, currentLanguages, languageSelects,
               liveTranslateEnabled, debounceTimer, timers, calls, detectPending,
               detectText,
               translationHistory, toast, targetWrite, burst>>

deviceVars == <<storedApiKey, voice>>

utilVars == <<swapLog, debounced>>

vars == <<pipeVars, coordVars, deviceVars, utilVars>>

(***************************************************************************)
(* Strings                                                                 *)
(***************************************************************************)
Space == " "

RECURSIVE TrimStart(_)
TrimStart(s) ==
    IF s # <<>> /\ Head(s) = Space THEN TrimStart(Tail(s)) ELSE s

RECURSIVE TrimEnd(_)
TrimEnd(s) ==
    IF s # <<>> /\ s[Len(s)] = Space THEN TrimEnd(SubSeq(s, 1, Len(s) - 1)) ELSE s

\* String.prototype.trim
Trim(s) == TrimEnd(TrimStart(s))

\* String.prototype.startsWith
StartsWith(s, prefix) ==
    Len(s) >= Len(prefix) /\ SubSeq(s, 1, Len(prefix)) = prefix

\* String.prototype.includes, on sequences of words
Includes(s, part) ==
    \E i \in 0..(Len(s) - Len(part)) : SubSeq(s, i + 1, i + Len(part)) = part

Min(a, b) == IF a <= b THEN a ELSE b
Max(a, b) == IF a >= b THEN a ELSE b

(***************************************************************************)
(* ApiManager: credential                                                  *)
(***************************************************************************)
KeyPrefix == <<"s", "k", "-">>

\* what localStorage may hold at start: nothing, a valid key, a key an
\* earlier version stored without validation
StoredKeys == {<<>>, <<"s", "k", "-", "1">>, <<"k", "1">>}

ApiManagerConstructor(storedKey) ==
    [apiKey |-> storedKey,
     baseUrl |-> "https://api.openai.com/v1",
     requestTimeout |-> 30000,
     maxRetries |-> 3]

ValidateApiKey(key) ==
    /\ key # <<>>
    /\ Len(Trim(key)) > 0
    /\ StartsWith(Trim(key), KeyPrefix)

\* a credential test that accepts every stored key
HasApiKeyUnvalidated(am) == am.apiKey # <<>>

HasApiKey(am) == am.apiKey # <<>> /\ ValidateApiKey(am.apiKey)

(***************************************************************************)
(* ApiManager: requests and what the network can answer                    *)
(***************************************************************************)
RequestTexts == {<<>>, <<" ">>, <<"h", "i">>}

Requests ==
    [op : {"translate"}, text : RequestTexts, source : {"auto", "en"}, target : {"vi"}]
    \cup [op : {"detect"}, text : RequestTexts, source : {"auto"}, target : {"vi"}]

\* a text test without trim
IsEmpty(text) == text = <<>>

\* !text?.trim()
IsBlank(text) == Trim(text) = <<>>

NoRequest == [op |-> "none", text |-> <<>>, source |-> "auto", target |-> "vi"]

\* a fixed budget
TranslateMaxTokensFixed(text) == 1000

\* max_tokens of a translation request
TranslateMaxTokens(text) == Min(1000, Max(100, Len(text) * 2))

DetectMaxTokens == 10

\* a detection that sends the whole text
DetectInputWhole(text) == text

\* text.substring(0, 500)
DetectInput(text) == SubSeq(text, 1, Min(Len(text), 500))

TranslatePayload(req) ==
    [endpoint |-> "/chat/completions", op |-> "translate", content |-> req.text,
     source |-> req.source, target |-> req.target,
     max_tokens |-> TranslateMaxTokens(req.text)]

DetectPayload(req) ==
    [endpoint |-> "/chat/completions", op |-> "detect", content |-> DetectInput(req.text),
     source |-> req.source, target |-> req.target,
     max_tokens |-> DetectMaxTokens]

NoPayload ==
    [endpoint |-> "", op |-> "none", content |-> <<>>, source |-> "auto",
     target |-> "vi", max_tokens |-> 0]

\* message of the first completion choice, as the service may send it
Contents == {<<>>, <<" ">>, <<" ", "x", "i", "n", " ">>, <<"c", "h", "a", "o">>}

\* error.message of an error body; the second one quotes "HTTP error"
RemoteMessages == {<<"Incorrect", "API", "key">>, <<"upstream", "HTTP", "error">>}

ClientStatuses == {401, 429}
ServerStatuses == {500, 503}

\* A settled fetch.  kind "response": the HTTP response and what
\* response.json() gives (jsonOk = FALSE: the body is no JSON; message <<>>:
\* no error.message).  kind "reject": fetch rejected, name and message of the
\* error.
OkResponses ==
    [kind : {"response"}, status : {200}, jsonOk : {TRUE}, name : {""},
     message : {<<>>}, content : Contents]
    \cup [kind : {"response"}, status : {200}, jsonOk : {FALSE}, name : {""},
          message : {<<>>}, content : {<<>>}]

ErrorResponses ==
    [kind : {"response"}, status : ClientStatuses \cup ServerStatuses, jsonOk : {TRUE},
     name : {""}, message : RemoteMessages \cup {<<>>}, content : {<<>>}]
    \cup [kind : {"response"}, status : ClientStatuses \cup ServerStatuses,
          jsonOk : {FALSE}, name : {""}, message : {<<>>}, content : {<<>>}]

NetworkRejections ==
    [kind : {"reject"}, status : {0}, jsonOk : {FALSE}, name : {"TypeError"},
     message : {<<"Failed", "to", "fetch">>}, content : {<<>>}]

\* controller.abort() after requestTimeout ms: fetch rejects with an AbortError
AbortRejection ==
    [kind |-> "reject", status |-> 0, jsonOk |-> FALSE, name |-> "AbortError",
     message |-> <<"The", "operation", "was", "aborted">>, content |-> <<>>]

NoEvent ==
    [kind |-> "none", status |-> 0, jsonOk |-> FALSE, name |-> "",
     message |-> <<>>, content |-> <<>>]

\* class of a settled attempt
AttemptClass(ev) ==
    IF ev.kind = "reject"
    THEN (IF ev.name = "AbortError" THEN "timeout" ELSE "network")
    ELSE IF ev.status >= 500 THEN "5xx"
    ELSE IF ev.status >= 400 THEN "4xx"
    ELSE IF ev.jsonOk THEN "ok" ELSE "badjson"

(***************************************************************************)
(* ApiManager.#makeApiRequest: one frame's decision on a settled fetch     *)
(***************************************************************************)
HttpErrorText == <<"HTTP", "error">>

\* errorData.error?.message || `HTTP error! status: ${response.status}`
ErrorMessage(ev) ==
    IF ev.jsonOk /\ ev.message # <<>>
    THEN ev.message
    ELSE <<"HTTP", "error", "!", "status:", ToString(ev.status)>>

TimeoutMessage == <<"Request", "timeout", "-", "please", "try", "again">>

JsonSyntaxMessage == <<"Unexpected", "token">>

\* a backoff that starts one power too high
BackoffDelayFromTwo(rc) == (2 ^ (rc + 1)) * 1000

\* a backoff that grows linearly
BackoffDelayLinear(rc) == (rc + 1) * 1000

\* Math.pow(2, retryCount) * 1000
BackoffDelay(rc) == (2 ^ rc) * 1000

\* a retry test that is off by one
ServerRetryInclusive(status, rc, maxRetries) == status >= 500 /\ rc <= maxRetries

\* response.status >= 500 && retryCount < this.maxRetries
ServerRetry(status, rc, maxRetries) == status >= 500 /\ rc < maxRetries

\* a catch block that gives up one attempt early
CatchRetryEarly(message, rc, maxRetries) ==
    rc + 1 < maxRetries /\ ~Includes(message, HttpErrorText)

\* retryCount < this.maxRetries && !error.message.includes('HTTP error')
CatchRetry(message, rc, maxRetries) ==
    rc < maxRetries /\ ~Includes(message, HttpErrorText)

Retry(rc) == [do |-> "retry", delay |-> BackoffDelay(rc), message |-> <<>>, content |-> <<>>]
Throw(msg) == [do |-> "throw", delay |-> 0, message |-> msg, content |-> <<>>]
Return(c) == [do |-> "return", delay |-> 0, message |-> <<>>, content |-> c]

\* a catch block without the AbortError test: a timeout is retried like a
\* connection failure
CatchBlockRetriesAbort(name, message, rc, maxRetries) ==
    IF CatchRetry(message, rc, maxRetries) THEN Retry(rc) ELSE Throw(message)

\* the catch block, entered with an error of the given name and message
CatchBlock(name, message, rc, maxRetries) ==
    IF name = "AbortError" THEN Throw(TimeoutMessage)
    ELSE IF CatchRetry(message, rc, maxRetries) THEN Retry(rc)
    ELSE Throw(message)

\* the try block on a response; what it throws is caught by the catch block of
\* the same frame (a retry's promise is returned, not awaited: the frame that
\* started the retry never sees its rejection)
TryBlock(ev, rc, maxRetries) ==
    IF ev.status >= 400
    THEN IF ServerRetry(ev.status, rc, maxRetries)
         THEN Retry(rc)
         ELSE CatchBlock("Error", ErrorMessage(ev), rc, maxRetries)
    ELSE IF ev.jsonOk
         THEN Return(ev.content)
         ELSE CatchBlock("SyntaxError", JsonSyntaxMessage, rc, maxRetries)

MakeApiRequest(ev, rc, maxRetries) ==
    IF ev.kind = "reject"
    THEN CatchBlock(ev.name, ev.message, rc, maxRetries)
    ELSE TryBlock(ev, rc, maxRetries)

UnknownLanguage == <<"U", "n", "k", "n", "o", "w", "n">>

\* a .then without trim
ThenContentUntrimmed(op, content) ==
    IF content # <<>> THEN content
    ELSE IF op = "detect" THEN UnknownLanguage ELSE <<>>

\* the .then of translateText and of detectLanguage
ThenContent(op, content) ==
    IF Trim(content) # <<>> THEN Trim(content)
    ELSE IF op = "detect" THEN UnknownLanguage ELSE <<>>

NoOutcome == [kind |-> "none", value |-> <<>>, message |-> <<>>]
Resolved(v) == [kind |-> "resolved", value |-> v, message |-> <<>>]
Rejected(m) == [kind |-> "rejected", value |-> <<>>, message |-> m]

NoKeyMessage == <<"API", "key", "not", "set", "or", "invalid">>
NoTextMessage(op) ==
    IF op = "translate" THEN <<"Source", "text", "is", "required">>
    ELSE <<"Text", "is", "required", "for", "language", "detection">>

FetchEvent == [e |-> "fetch", ms |-> 0]
DelayEvent(ms) == [e |-> "delay", ms |-> ms]


(***************************************************************************)
(* TranslationEngine, EventManager, HistoryManager: state and helpers      *)
(***************************************************************************)
\* the most translateText calls that reach the pipeline in one behaviour
MaxCalls == 2

\* the longest step of time, in ms
TickMs == 500

\* setTimeout(..., 1000) of debounceTranslate
DebounceMs == 1000

\* what the user may leave in #source-text
SourceTexts == {<<>>, <<"h">>, <<"h", "e", " ">>}

LanguageNames(code) ==
    CASE code = "auto" -> "Auto Detect"
      [] code = "en" -> "English"
      [] code = "vi" -> "Vietnamese"
      [] code = "ja" -> "Japanese"
      [] code = "de" -> "German"
      [] code = "zh" -> "Chinese"
      [] OTHER -> code

\* TranslationEngine's constructor
InitialLanguages == [source |-> "auto", target |-> "en"]

EnterTextMessage == <<"Please", "enter", "text", "to", "translate">>
SetKeyMessage == <<"Please", "set", "your", "OpenAI", "API", "key", "first">>
FailedMessage(message) == <<"Translation", "failed:">> \o message
SwapRefusedMessage == <<"Cannot", "swap", "when", "auto-detect", "is", "enabled">>

\* what the user may pick in #source-language and in #target-language
LanguageChoices ==
    {<<"source", "auto">>, <<"source", "vi">>, <<"target", "en">>, <<"target", "vi">>}
NoToast == [message |-> <<>>, type |-> "", call |-> 0]

\* the message content the remote model returns for a text: a rendering of
\* that text, padded as model replies can be
RemoteContent(text) == <<" ", "~">> \o text \o <<" ">>

\* how ApiManager.translateText can settle for the coordinator's call for text
TranslateOutcomes(text) ==
    {Resolved(ThenContent("translate", RemoteContent(text))),
     Rejected(TimeoutMessage)}

\* how ApiManager.detectLanguage can settle for the coordinator
DetectOutcomes ==
    {Resolved(ThenContent("detect", <<"E", "n">>)), Rejected(TimeoutMessage)}

MaxHistoryItems == 20

\* a snippet that is the whole text
SnippetUncut(text) == text

\* text.substring(0, 100)
Snippet(text) == SubSeq(text, 1, Min(Len(text), 100))

HistoryItem(text, translation, sourceLang, targetLang) ==
    [sourceText |-> Snippet(text),
     translation |-> Snippet(translation),
     fullSourceText |-> text,
     fullTranslation |-> translation,
     sourceLang |-> LanguageNames(sourceLang),
     targetLang |-> LanguageNames(targetLang)]

\* an addToHistory that never drops a record
AddToHistoryUnbounded(history, text, translation, sourceLang, targetLang) ==
    <<HistoryItem(text, translation, sourceLang, targetLang)>> \o history

\* unshift, then keep the first maxHistoryItems
AddToHistory(history, text, translation, sourceLang, targetLang) ==
    LET h == <<HistoryItem(text, translation, sourceLang, targetLang)>> \o history IN
    IF Len(h) > MaxHistoryItems THEN SubSeq(h, 1, MaxHistoryItems) ELSE h

\* clearTimeout: a handle of no pending timeout clears nothing
ClearTimeout(ts, handle) == {t \in ts : t.id # handle}

\* the handle setTimeout returns: one no pending timeout has
NewTimerId(ts) ==
    CHOOSE n \in 1..(Cardinality(ts) + 1) :
        /\ \A t \in ts : t.id # n
        /\ \A m \in 1..(n - 1) : \E t \in ts : t.id = m

SetTimeout(ts, ms) == ts \cup {[id |-> NewTimerId(ts), ms |-> ms]}

\* a debounce that forgets to clear the pending timeout
DebounceTimersNoClear(ts, handle) == SetTimeout(ts, DebounceMs)

\* debounceTranslate's clearTimeout and setTimeout: the timeouts pending after
DebounceTimers(ts, handle) == SetTimeout(ClearTimeout(ts, handle), DebounceMs)

NoWrite == 0

\* the coordinator as constructed
CoordInit ==
    /\ sourceText = <<>>
    /\ targetText = <<>>
    /\ detectedLanguage = <<>>
    /\ translationStatus = ""
    /\ loadingShown = FALSE
    /\ liveCheckbox = FALSE
    /\ currentLanguages = InitialLanguages
    /\ languageSelects = InitialLanguages
    /\ liveTranslateEnabled = FALSE
    /\ debounceTimer = 0
    /\ timers = {}
    /\ calls = <<>>
    /\ detectPending = 0
    /\ detectText = <<>>
    /\ translationHistory = <<>>
    /\ toast = NoToast
    /\ targetWrite = NoWrite
    /\ burst = [age |-> DebounceMs + 1, fires |-> 0, calls |-> 0, live |-> FALSE,
                events |-> 0]

\* VoiceController as constructed: not listening, no utterance
VoiceControllerConstructor ==
    [isListening |-> FALSE, recognition |-> "inactive", recognitionLang |-> "",
     utteranceLang |-> ""]

\* no swapLanguages call has been made yet
NoSwapLog == [n |-> 0, before |-> <<>>, after |-> <<>>]

\* PerformanceUtils.debounce(func, wait, immediate): the closure it returns,
\* "let timeout" still undefined, no call made, func not run
Debounce(immediate) ==
    [immediate |-> immediate, timeout |-> 0, pending |-> {},
     called |-> FALSE, lastArgs |-> "", sinceCall |-> 0, gap |-> 0,
     runs |-> 0, lastRun |-> "", last |-> "none", ran |-> FALSE]

\* the constructors ran: ApiManager read its key from localStorage
DeviceInit ==
    /\ storedApiKey = apiManager.apiKey
    /\ voice = VoiceControllerConstructor
    /\ swapLog = NoSwapLog
    /\ debounced = Debounce(FALSE)

(***************************************************************************)
(* PipeSpec: one ApiManager.translateText / detectLanguage call            *)
(***************************************************************************)
PipeInit ==
    /\ apiManager \in {ApiManagerConstructor(k) : k \in StoredKeys}
    /\ pc = "idle"
    /\ request = NoRequest
    /\ payload = NoPayload
    /\ retryCount = 0
    /\ lastEvent = NoEvent
    /\ attempts = <<>>
    /\ trace = <<>>
    /\ outcome = NoOutcome
    /\ CoordInit
    /\ DeviceInit

\* translateText / detectLanguage up to the first fetch
CallApi(req) ==
    /\ pc = "idle"
    /\ request' = req
    /\ IF ~HasApiKey(apiManager)
       THEN /\ outcome' = Rejected(NoKeyMessage)
            /\ pc' = "done"
            /\ UNCHANGED <<payload, trace>>
       ELSE IF IsBlank(req.text)
       THEN /\ outcome' = Rejected(NoTextMessage(req.op))
            /\ pc' = "done"
            /\ UNCHANGED <<payload, trace>>
       ELSE /\ payload' = (IF req.op = "translate" THEN TranslatePayload(req)
                           ELSE DetectPayload(req))
            /\ trace' = Append(trace, FetchEvent)
            /\ pc' = "fetching"
            /\ UNCHANGED outcome
    /\ UNCHANGED <<apiManager, retryCount, lastEvent, attempts>>
    /\ UNCHANGED <<coordVars, deviceVars, utilVars>>

\* the running frame of #makeApiRequest handles a settled fetch
Settle(ev) ==
    LET d == MakeApiRequest(ev, retryCount, apiManager.maxRetries) IN
    /\ lastEvent' = ev
    /\ attempts' = Append(attempts, AttemptClass(ev))
    /\ CASE d.do = "retry" ->
              /\ trace' = Append(trace, DelayEvent(d.delay))
              /\ pc' = "backoff"
              /\ UNCHANGED outcome
         [] d.do = "throw" ->
              /\ outcome' = Rejected(d.message)
              /\ pc' = "done"
              /\ UNCHANGED trace
         [] d.do = "return" ->
              /\ outcome' = Resolved(ThenContent(request.op, d.content))
              /\ pc' = "done"
              /\ UNCHANGED trace
    /\ UNCHANGED <<apiManager, request, payload, retryCount>>
    /\ UNCHANGED <<coordVars, deviceVars, utilVars>>

FetchSettles ==
    /\ pc = "fetching"
    /\ \E ev \in OkResponses \cup ErrorResponses \cup NetworkRejections : Settle(ev)

\* the abort timer fires requestTimeout ms after the fetch was issued
TimeoutFires ==
    /\ pc = "fetching"
    /\ Settle(AbortRejection)

\* a retry that spends the retry budget kept on the manager
DelayElapsedSpendsBudget ==
    /\ pc = "backoff"
    /\ retryCount' = retryCount + 1
    /\ trace' = Append(trace, FetchEvent)
    /\ pc' = "fetching"
    /\ apiManager' = [apiManager EXCEPT !.maxRetries = @ - 1]
    /\ UNCHANGED <<request, payload, lastEvent, attempts, outcome>>
    /\ UNCHANGED <<coordVars, deviceVars, utilVars>>

\* #delay resolves: the recursive call issues the next fetch
DelayElapsed ==
    /\ pc = "backoff"
    /\ retryCount' = retryCount + 1
    /\ trace' = Append(trace, FetchEvent)
    /\ pc' = "fetching"
    /\ UNCHANGED <<apiManager, request, payload, lastEvent, attempts, outcome>>
    /\ UNCHANGED <<coordVars, deviceVars, utilVars>>

PipeNext ==
    \/ \E req \in Requests : CallApi(req)
    \/ FetchSettles
    \/ TimeoutFires
    \/ DelayElapsed

PipeSpec == PipeInit /\ [][PipeNext]_vars

\* each fetch settles (the abort timer sees to it) and each delay elapses
PipeLiveSpec ==
    /\ PipeSpec
    /\ WF_vars(FetchSettles \/ TimeoutFires)
    /\ WF_vars(DelayElapsed)


(***************************************************************************)
(* PayloadSpec: the request bodies ApiManager builds for texts of every    *)
(* length up to MaxTextLength                                              *)
(***************************************************************************)
\* the longest text handed to ApiManager
MaxTextLength == 600

\* a text of n characters, the i-th one written as its position
TextOfLength(n) == [i \in 1..n |-> ToString(i)]

PayloadRequests ==
    {[op |-> op, text |-> TextOfLength(n), source |-> "auto", target |-> "vi"] :
        op \in {"translate", "detect"}, n \in 0..MaxTextLength}

PayloadNext == \E req \in PayloadRequests : CallApi(req)

PayloadSpec == PipeInit /\ [][PayloadNext]_vars


(***************************************************************************)
(* Spec: the coordinator.  A translateText call that reached the pipeline  *)
(* stays pending until ApiManager.translateText settles (PipeSpec).        *)
(***************************************************************************)
Init ==
    /\ apiManager \in {ApiManagerConstructor(k) : k \in StoredKeys}
    /\ pc = "idle"
    /\ request = NoRequest
    /\ payload = NoPayload
    /\ retryCount = 0
    /\ lastEvent = NoEvent
    /\ attempts = <<>>
    /\ trace = <<>>
    /\ outcome = NoOutcome
    /\ CoordInit
    /\ DeviceInit

\* UIController.showToast; call: the translateText call that failed, else 0
ShowToast(message, type, call) ==
    toast' = [message |-> message, type |-> type, call |-> call]

\* a translateText that shows the loading indicator before its checks
TranslateTextOfLoadingFirst(text, languages) ==
    IF Trim(text) = <<>>
    THEN /\ ShowToast(EnterTextMessage, "warning", 0)
         /\ loadingShown' = TRUE
         /\ UNCHANGED <<translationStatus, calls>>
    ELSE IF ~HasApiKey(apiManager)
    THEN /\ ShowToast(SetKeyMessage, "error", 0)
         /\ loadingShown' = TRUE
         /\ UNCHANGED <<translationStatus, calls>>
    ELSE /\ Len(calls) < MaxCalls
         /\ loadingShown' = TRUE
         /\ translationStatus' = "Translating..."
         /\ calls' = Append(calls, [text |-> Trim(text),
                                    source |-> languages.source,
                                    target |-> languages.target,
                                    state |-> "pending"])
         /\ UNCHANGED toast

\* TranslationEngine.translateText up to its await, run while #source-text
\* holds text and currentLanguages is languages
TranslateTextOf(text, languages) ==
    IF Trim(text) = <<>>
    THEN /\ ShowToast(EnterTextMessage, "warning", 0)
         /\ UNCHANGED <<loadingShown, translationStatus, calls>>
    ELSE IF ~HasApiKey(apiManager)
    THEN /\ ShowToast(SetKeyMessage, "error", 0)
         /\ UNCHANGED <<loadingShown, translationStatus, calls>>
    ELSE /\ Len(calls) < MaxCalls
         /\ loadingShown' = TRUE
         /\ translationStatus' = "Translating..."
         /\ calls' = Append(calls, [text |-> Trim(text),
                                    source |-> languages.source,
                                    target |-> languages.target,
                                    state |-> "pending"])
         /\ UNCHANGED toast

TranslateText == TranslateTextOf(sourceText, currentLanguages)

\* a debounce that arms no timeout while a call is in flight
DebounceTranslateWhenIdle ==
    IF ~liveTranslateEnabled \/ \E i \in 1..Len(calls) : calls[i].state = "pending"
    THEN UNCHANGED <<timers, debounceTimer>>
    ELSE /\ timers' = DebounceTimers(timers, debounceTimer)
         /\ debounceTimer' = NewTimerId(ClearTimeout(timers, debounceTimer))

\* TranslationEngine.debounceTranslate
DebounceTranslate ==
    IF ~liveTranslateEnabled
    THEN UNCHANGED <<timers, debounceTimer>>
    ELSE /\ timers' = DebounceTimers(timers, debounceTimer)
         /\ debounceTimer' = NewTimerId(ClearTimeout(timers, debounceTimer))

\* EventManager.handleTranslate: the Translate button, Ctrl+Enter
HandleTranslate ==
    /\ TranslateText
    /\ UNCHANGED <<sourceText, targetText, detectedLanguage, liveCheckbox,
                   currentLanguages, languageSelects, liveTranslateEnabled, debounceTimer, timers,
                   detectPending, detectText, translationHistory, targetWrite, burst>>
    /\ UNCHANGED <<apiManager, pipeOnlyVars, deviceVars, utilVars>>

\* EventManager.handleSourceTextInput: the user edited #source-text
HandleSourceTextInput(text) ==
    /\ text # sourceText
    /\ sourceText' = text
    /\ IF liveCheckbox THEN DebounceTranslate ELSE UNCHANGED <<timers, debounceTimer>>
    /\ burst' = [age |-> 0, fires |-> 0, calls |-> 0, live |-> liveCheckbox,
                 events |-> IF timers # {} THEN 2 ELSE 1]
    /\ UNCHANGED <<targetText, detectedLanguage, translationStatus, loadingShown,
                   liveCheckbox, currentLanguages, languageSelects, liveTranslateEnabled, calls,
                   detectPending, detectText, translationHistory, toast, targetWrite>>
    /\ UNCHANGED <<apiManager, pipeOnlyVars, deviceVars, utilVars>>

\* a toggle that only stores the flag
HandleLiveTranslateToggleFlagOnly ==
    /\ liveCheckbox' = ~liveCheckbox
    /\ liveTranslateEnabled' = ~liveCheckbox
    /\ UNCHANGED <<loadingShown, translationStatus, calls, toast>>
    /\ UNCHANGED <<sourceText, targetText, detectedLanguage, currentLanguages, languageSelects,
                   debounceTimer, timers, detectPending, detectText, translationHistory,
                   targetWrite, burst>>
    /\ UNCHANGED <<apiManager, pipeOnlyVars, deviceVars, utilVars>>

\* EventManager.handleLiveTranslateToggle: the user flipped #live-translate
HandleLiveTranslateToggle ==
    /\ liveCheckbox' = ~liveCheckbox
    /\ liveTranslateEnabled' = ~liveCheckbox
    /\ IF ~liveCheckbox /\ Trim(sourceText) # <<>>
       THEN TranslateText
       ELSE UNCHANGED <<loadingShown, translationStatus, calls, toast>>
    /\ UNCHANGED <<sourceText, targetText, detectedLanguage, currentLanguages, languageSelects,
                   debounceTimer, timers, detectPending, detectText, translationHistory,
                   targetWrite, burst>>
    /\ UNCHANGED <<apiManager, pipeOnlyVars, deviceVars, utilVars>>

\* EventManager.handleClear: TranslationEngine.clearText
HandleClear ==
    /\ sourceText' = <<>>
    /\ targetText' = <<>>
    /\ detectedLanguage' = <<>>
    /\ translationStatus' = ""
    /\ targetWrite' = NoWrite
    /\ UNCHANGED <<loadingShown, liveCheckbox, currentLanguages, languageSelects, liveTranslateEnabled,
                   debounceTimer, timers, calls, detectPending, detectText, translationHistory,
                   toast, burst>>
    /\ UNCHANGED <<apiManager, pipeOnlyVars, deviceVars, utilVars>>

\* the callback of debounceTranslate's timeout runs: the timeout is due
DebounceTimerFires ==
    \E t \in timers :
        /\ t.ms = 0
        /\ timers' = timers \ {t}
        /\ TranslateText
        /\ burst' = [burst EXCEPT !.fires = Min(@ + 1, 2),
                                  !.calls = Min(@ + Len(calls') - Len(calls), 2)]
        /\ UNCHANGED <<sourceText, targetText, detectedLanguage, liveCheckbox,
                       currentLanguages, languageSelects, liveTranslateEnabled, debounceTimer,
                       detectPending, detectText, translationHistory, targetWrite>>
        /\ UNCHANGED <<apiManager, pipeOnlyVars, deviceVars, utilVars>>

\* time passes: at most TickMs, and not past a timeout that is due
Tick ==
    LET d == IF timers = {} THEN TickMs
             ELSE Min(TickMs, CHOOSE m \in {t.ms : t \in timers} :
                                  \A t \in timers : m <= t.ms) IN
    /\ d > 0
    /\ timers # {} \/ burst.age <= DebounceMs
    /\ timers' = {[t EXCEPT !.ms = @ - d] : t \in timers}
    /\ burst' = [burst EXCEPT !.age = Min(@ + d, DebounceMs + 1)]
    /\ UNCHANGED <<sourceText, targetText, detectedLanguage, translationStatus,
                   loadingShown, liveCheckbox, currentLanguages, languageSelects, liveTranslateEnabled,
                   debounceTimer, calls, detectPending, detectText, translationHistory,
                   toast, targetWrite>>
    /\ UNCHANGED <<apiManager, pipeOnlyVars, deviceVars, utilVars>>

\* a swap that is never refused
SwapRefusedNever(selects) == FALSE

\* swapLanguages' test of #source-language
SwapRefused(selects) == selects.source = "auto"

\* an exchange that overwrites the target selection with itself
SwappedSelectsSourceOnly(selects) ==
    [source |-> selects.target, target |-> selects.target]

\* swapLanguages' exchange of the two select values through tempLang
SwappedSelects(selects) == [source |-> selects.target, target |-> selects.source]

\* a setLanguages that stores nothing
SetLanguagesKeepsPair(languages, type, value) == languages

\* a setLanguages that stores the value on the other side
SetLanguagesOtherSide(languages, type, value) ==
    IF type = "source"
    THEN [source |-> languages.source, target |-> value]
    ELSE [source |-> value, target |-> languages.target]

\* handleLanguageChange's setLanguages call: the pair with one side replaced
SetLanguages(languages, type, value) ==
    IF type = "source"
    THEN [source |-> value, target |-> languages.target]
    ELSE [source |-> languages.source, target |-> value]

\* a swapLanguages that moves the translation into the source buffer and leaves
\* the target buffer empty
SwapLanguagesDropsSource ==
    /\ IF SwapRefused(languageSelects)
       THEN /\ ShowToast(SwapRefusedMessage, "warning", 0)
            /\ UNCHANGED <<languageSelects, sourceText, targetText, currentLanguages,
                           targetWrite, loadingShown, translationStatus, calls>>
       ELSE /\ languageSelects' = SwappedSelects(languageSelects)
            /\ sourceText' = targetText
            /\ targetText' = <<>>
            /\ currentLanguages' = languageSelects'
            /\ targetWrite' = NoWrite
            /\ IF liveTranslateEnabled /\ Trim(sourceText') # <<>>
               THEN TranslateTextOf(sourceText', currentLanguages')
               ELSE UNCHANGED <<loadingShown, translationStatus, calls, toast>>
    /\ UNCHANGED <<detectedLanguage, liveCheckbox, liveTranslateEnabled, debounceTimer,
                   timers, detectPending, detectText, translationHistory, burst>>

\* TranslationEngine.swapLanguages
SwapLanguages ==
    /\ IF SwapRefused(languageSelects)
       THEN /\ ShowToast(SwapRefusedMessage, "warning", 0)
            /\ UNCHANGED <<languageSelects, sourceText, targetText, currentLanguages,
                           targetWrite, loadingShown, translationStatus, calls>>
       ELSE /\ languageSelects' = SwappedSelects(languageSelects)
            /\ sourceText' = targetText
            /\ targetText' = sourceText
            /\ currentLanguages' = languageSelects'
            /\ targetWrite' = NoWrite
            /\ IF liveTranslateEnabled /\ Trim(sourceText') # <<>>
               THEN TranslateTextOf(sourceText', currentLanguages')
               ELSE UNCHANGED <<loadingShown, translationStatus, calls, toast>>
    /\ UNCHANGED <<detectedLanguage, liveCheckbox, liveTranslateEnabled, debounceTimer,
                   timers, detectPending, detectText, translationHistory, burst>>

\* EventManager.handleSwapLanguages: TranslationEngine.swapLanguages
HandleSwapLanguages ==
    /\ SwapLanguages
    /\ UNCHANGED <<apiManager, pipeOnlyVars, deviceVars, utilVars>>

\* what two swaps are to restore: the two buffers and the two selections
Snapshot ==
    [sourceText |-> sourceText, targetText |-> targetText, selects |-> languageSelects]

\* swapLanguages, with the log of consecutive swaps kept: a swap that follows a
\* logged swap with nothing changed in between is the second of a pair, any
\* other swap the first of a new one; a refused swap is not a swap
LoggedSwap ==
    /\ SwapLanguages
    /\ swapLog' = IF SwapRefused(languageSelects) THEN swapLog
                  ELSE IF swapLog.n = 1 /\ swapLog.after = Snapshot
                       THEN [n |-> 2, before |-> swapLog.before, after |-> Snapshot']
                       ELSE [n |-> 1, before |-> Snapshot, after |-> Snapshot']
    /\ UNCHANGED <<apiManager, pipeOnlyVars, deviceVars, debounced>>

\* EventManager.handleLanguageChange: the user picked value in the select of
\* the given side (a change event: the value differs from the one selected)
HandleLanguageChange(type, value) ==
    /\ value # languageSelects[type]
    /\ languageSelects' = [languageSelects EXCEPT ![type] = value]
    /\ currentLanguages' = SetLanguages(currentLanguages, type, value)
    /\ IF liveCheckbox /\ Trim(sourceText) # <<>>
       THEN TranslateTextOf(sourceText, currentLanguages')
       ELSE UNCHANGED <<loadingShown, translationStatus, calls, toast>>
    /\ UNCHANGED <<sourceText, targetText, detectedLanguage, liveCheckbox,
                   liveTranslateEnabled, debounceTimer, timers, detectPending, detectText,
                   translationHistory, targetWrite, burst>>
    /\ UNCHANGED <<apiManager, pipeOnlyVars, deviceVars, utilVars>>

\* a catch block that leaves the output text as it is
CatchKeepsTargetText(i, message) ==
    /\ ShowToast(FailedMessage(message), "error", i)
    /\ translationStatus' = "Translation failed"
    /\ UNCHANGED <<targetText, targetWrite>>

\* a catch block that swallows the failure without a notification
CatchWithoutNotification(i, message) ==
    /\ translationStatus' = "Translation failed"
    /\ targetText' = <<>>
    /\ targetWrite' = NoWrite
    /\ UNCHANGED toast

\* the catch block of translateText, entered by call i
CatchTranslationError(i, message) ==
    /\ ShowToast(FailedMessage(message), "error", i)
    /\ translationStatus' = "Translation failed"
    /\ targetText' = <<>>
    /\ targetWrite' = NoWrite

\* TranslationEngine.translateText after its await: call i settles
TranslateSettles(i, out) ==
    /\ calls[i].state = "pending"
    /\ IF out.kind = "resolved"
       THEN /\ targetText' = out.value
            /\ translationStatus' = "Translation completed"
            /\ detectPending' = IF currentLanguages.source = "auto"
                                THEN detectPending + 1 ELSE detectPending
            /\ detectText' = IF currentLanguages.source = "auto"
                             THEN calls[i].text ELSE detectText
            /\ translationHistory' =
                  AddToHistory(translationHistory, calls[i].text, out.value,
                               currentLanguages.source, currentLanguages.target)
            /\ calls' = [calls EXCEPT ![i].state = "ok"]
            /\ targetWrite' = i
            /\ UNCHANGED toast
       ELSE /\ CatchTranslationError(i, out.message)
            /\ calls' = [calls EXCEPT ![i].state = "failed"]
            /\ UNCHANGED <<detectPending, detectText, translationHistory>>
    /\ loadingShown' = FALSE
    /\ UNCHANGED <<sourceText, detectedLanguage, liveCheckbox, currentLanguages, languageSelects,
                   liveTranslateEnabled, debounceTimer, timers, burst>>
    /\ UNCHANGED <<apiManager, pipeOnlyVars, deviceVars, utilVars>>

\* a detectLanguage whose failure is shown to the user
DetectSettlesNotifies(out) ==
    /\ detectPending > 0
    /\ detectPending' = detectPending - 1
    /\ UNCHANGED detectText
    /\ detectedLanguage' = IF out.kind = "resolved"
                           THEN <<"Detected:">> \o out.value ELSE detectedLanguage
    /\ IF out.kind = "resolved" THEN UNCHANGED toast
       ELSE ShowToast(<<"Detection", "failed">>, "error", 0)
    /\ UNCHANGED <<sourceText, targetText, translationStatus, loadingShown,
                   liveCheckbox, currentLanguages, languageSelects, liveTranslateEnabled,
                   debounceTimer, timers, calls, translationHistory,
                   targetWrite, burst>>
    /\ UNCHANGED <<apiManager, pipeOnlyVars, deviceVars, utilVars>>

\* TranslationEngine.detectLanguage after its await
DetectSettles(out) ==
    /\ detectPending > 0
    /\ detectPending' = detectPending - 1
    /\ UNCHANGED detectText
    /\ detectedLanguage' = IF out.kind = "resolved"
                           THEN <<"Detected:">> \o out.value ELSE detectedLanguage
    /\ UNCHANGED <<sourceText, targetText, translationStatus, loadingShown,
                   liveCheckbox, currentLanguages, languageSelects, liveTranslateEnabled,
                   debounceTimer, timers, calls, translationHistory, toast,
                   targetWrite, burst>>
    /\ UNCHANGED <<apiManager, pipeOnlyVars, deviceVars, utilVars>>

Next ==
    \/ HandleTranslate
    \/ \E text \in SourceTexts : HandleSourceTextInput(text)
    \/ HandleLiveTranslateToggle
    \/ HandleClear
    \/ DebounceTimerFires
    \/ Tick
    \/ \E i \in 1..Len(calls) : \E out \in TranslateOutcomes(calls[i].text) : TranslateSettles(i, out)
    \/ \E out \in DetectOutcomes : DetectSettles(out)

Spec == Init /\ [][Next]_vars

(***************************************************************************)
(* LangSpec: the coordinator under language changes and swaps.  With a     *)
(* credential it starts in a session in progress: the user typed "h" and   *)
(* pressed Translate MaxCalls - 1 times, each call and its detection       *)
(* resolved before the next; one more call can reach the pipeline.         *)
(***************************************************************************)
EarlierText == <<"h">>

EarlierTranslation == ThenContent("translate", RemoteContent(EarlierText))

EarlierCall ==
    [text |-> EarlierText, source |-> InitialLanguages.source,
     target |-> InitialLanguages.target, state |-> "ok"]

\* the session, the selects then set to the given pair with live mode off
SessionAfterCalls(languages) ==
    /\ sourceText = EarlierText
    /\ targetText = EarlierTranslation
    /\ detectedLanguage = <<"Detected:">> \o ThenContent("detect", <<"E", "n">>)
    /\ translationStatus = "Translation completed"
    /\ loadingShown = FALSE
    /\ liveCheckbox = FALSE
    /\ currentLanguages = languages
    /\ languageSelects = languages
    /\ liveTranslateEnabled = FALSE
    /\ debounceTimer = 0
    /\ timers = {}
    /\ calls = [i \in 1..(MaxCalls - 1) |-> EarlierCall]
    /\ detectPending = 0
    /\ detectText = EarlierText
    /\ translationHistory =
          [i \in 1..(MaxCalls - 1) |->
              HistoryItem(EarlierText, EarlierTranslation, InitialLanguages.source,
                          InitialLanguages.target)]
    /\ toast = NoToast
    /\ targetWrite = MaxCalls - 1
    /\ burst = [age |-> DebounceMs + 1, fires |-> 0, calls |-> 0, live |-> FALSE,
                events |-> 1]

SessionInProgress == SessionAfterCalls(InitialLanguages)

LangInit ==
    /\ apiManager \in {ApiManagerConstructor(k) : k \in StoredKeys}
    /\ pc = "idle"
    /\ request = NoRequest
    /\ payload = NoPayload
    /\ retryCount = 0
    /\ lastEvent = NoEvent
    /\ attempts = <<>>
    /\ trace = <<>>
    /\ outcome = NoOutcome
    /\ IF HasApiKey(apiManager) THEN SessionInProgress ELSE CoordInit
    /\ DeviceInit

LangNext ==
    \/ \E text \in SourceTexts : HandleSourceTextInput(text)
    \/ HandleLiveTranslateToggle
    \/ HandleSwapLanguages
    \/ \E c \in LanguageChoices : HandleLanguageChange(c[1], c[2])
    \/ \E i \in 1..Len(calls) : \E out \in TranslateOutcomes(calls[i].text) : TranslateSettles(i, out)

LangSpec == LangInit /\ [][LangNext]_vars

(***************************************************************************)
(* DetectSpec: language detection after a translation.  Live mode stays    *)
(* off: calls are issued by the Translate button, under every selection    *)
(* of LanguageChoices.                                                     *)
(***************************************************************************)
DetectNext ==
    \/ \E text \in SourceTexts : HandleSourceTextInput(text)
    \/ HandleTranslate
    \/ HandleClear
    \/ \E c \in LanguageChoices : HandleLanguageChange(c[1], c[2])
    \/ \E i \in 1..Len(calls) : \E out \in TranslateOutcomes(calls[i].text) : TranslateSettles(i, out)
    \/ \E out \in DetectOutcomes : DetectSettles(out)

DetectSpec == LangInit /\ [][DetectNext]_vars

(***************************************************************************)
(* SwapSpec: swapLanguages with live translation off and no call in flight *)
(***************************************************************************)
SwapNext ==
    \/ \E text \in SourceTexts : HandleSourceTextInput(text)
    \/ HandleClear
    \/ \E c \in LanguageChoices : HandleLanguageChange(c[1], c[2])
    \/ LoggedSwap

SwapSpec == LangInit /\ [][SwapNext]_vars

(***************************************************************************)
(* DebounceSpec: a function wrapped by PerformanceUtils.debounce           *)
(***************************************************************************)
\* the wait the function is wrapped with, in ms
WaitMs == 1000

\* what the wrapped function is called with
DebounceArgs == {"a", "b"}

DebounceInit ==
    /\ apiManager \in {ApiManagerConstructor(k) : k \in StoredKeys}
    /\ pc = "idle"
    /\ request = NoRequest
    /\ payload = NoPayload
    /\ retryCount = 0
    /\ lastEvent = NoEvent
    /\ attempts = <<>>
    /\ trace = <<>>
    /\ outcome = NoOutcome
    /\ CoordInit
    /\ storedApiKey = apiManager.apiKey
    /\ voice = VoiceControllerConstructor
    /\ swapLog = NoSwapLog
    /\ debounced \in {Debounce(immediate) : immediate \in BOOLEAN}

\* an executedFunction whose timeout callback keeps the arguments of the call
\* that began the burst
ExecutedFunctionFirstArgs(args) ==
    LET callNow == debounced.immediate /\ debounced.timeout = 0
        cleared == ClearTimeout(debounced.pending, debounced.timeout)
        id == NewTimerId(cleared)
        held == IF debounced.pending = {} THEN args
                ELSE (CHOOSE t \in debounced.pending : TRUE).args IN
    /\ debounced' =
          [debounced EXCEPT
              !.pending = cleared \cup {[id |-> id, ms |-> WaitMs, args |-> held]},
              !.timeout = id,
              !.called = TRUE,
              !.lastArgs = args,
              !.gap = IF debounced.called THEN debounced.sinceCall ELSE WaitMs + 1,
              !.sinceCall = 0,
              !.runs = (IF debounced.pending = {} THEN 0 ELSE @)
                          + (IF callNow THEN 1 ELSE 0),
              !.lastRun = IF callNow THEN args ELSE @,
              !.last = "call",
              !.ran = callNow]
    /\ UNCHANGED <<pipeVars, coordVars, deviceVars, swapLog>>

\* executedFunction(...args): the later callback holds args; callNow is taken
\* before the timeout is cleared and set again
ExecutedFunction(args) ==
    LET callNow == debounced.immediate /\ debounced.timeout = 0
        cleared == ClearTimeout(debounced.pending, debounced.timeout)
        id == NewTimerId(cleared) IN
    /\ debounced' =
          [debounced EXCEPT
              !.pending = cleared \cup {[id |-> id, ms |-> WaitMs, args |-> args]},
              !.timeout = id,
              !.called = TRUE,
              !.lastArgs = args,
              !.gap = IF debounced.called THEN debounced.sinceCall ELSE WaitMs + 1,
              !.sinceCall = 0,
              !.runs = (IF debounced.pending = {} THEN 0 ELSE @)
                          + (IF callNow THEN 1 ELSE 0),
              !.lastRun = IF callNow THEN args ELSE @,
              !.last = "call",
              !.ran = callNow]
    /\ UNCHANGED <<pipeVars, coordVars, deviceVars, swapLog>>

\* later: the timeout's callback
Later(t) ==
    /\ t \in debounced.pending
    /\ t.ms = 0
    /\ debounced' =
          [debounced EXCEPT
              !.pending = @ \ {t},
              !.timeout = 0,
              !.runs = IF debounced.immediate THEN @ ELSE @ + 1,
              !.lastRun = IF debounced.immediate THEN @ ELSE t.args,
              !.last = "later",
              !.ran = ~debounced.immediate]
    /\ UNCHANGED <<pipeVars, coordVars, deviceVars, swapLog>>

\* time passes, up to the next timeout that is due; it is counted until the
\* wait is over
DebounceTick ==
    LET d == IF debounced.pending = {} THEN TickMs
             ELSE Min(TickMs, CHOOSE m \in {t.ms : t \in debounced.pending} :
                                  \A t \in debounced.pending : m <= t.ms) IN
    /\ d > 0
    /\ debounced.called
    /\ debounced.pending # {} \/ debounced.sinceCall <= WaitMs
    /\ debounced' =
          [debounced EXCEPT
              !.pending = {[t EXCEPT !.ms = @ - d] : t \in @},
              !.sinceCall = Min(@ + d, WaitMs + 1),
              !.last = "tick",
              !.ran = FALSE]
    /\ UNCHANGED <<pipeVars, coordVars, deviceVars, swapLog>>

DebounceNext ==
    \/ \E args \in DebounceArgs : ExecutedFunction(args)
    \/ \E t \in debounced.pending : Later(t)
    \/ DebounceTick

DebounceSpec == DebounceInit /\ [][DebounceNext]_vars

(***************************************************************************)
(* KeySpec: saving the API key, and the request that follows               *)
(***************************************************************************)
\* what the user may leave in #api-key
KeyInputs ==
    {<<>>, <<" ">>, <<"k", "2">>, <<" ", "s", "k", "-", "2", " ">>}

InvalidKeyMessage == <<"Please", "enter", "a", "valid", "API", "key">>
SaveFailedMessage == <<"Failed", "to", "save", "API", "key:", "QuotaExceededError">>
KeySavedMessage == <<"API", "key", "saved", "successfully">>

\* UIController.getApiKeyFromInput
GetApiKeyFromInput(input) == Trim(input)

\* EventManager.handleSaveApiKey: ApiManager.saveApiKey with the value of
\* #api-key; storageOk: localStorage.setItem does not throw
HandleSaveApiKey(input, storageOk) ==
    LET apiKey == GetApiKeyFromInput(input) IN
    /\ IF ~ValidateApiKey(apiKey)
       THEN /\ ShowToast(InvalidKeyMessage, "error", 0)
            /\ UNCHANGED <<apiManager, storedApiKey>>
       ELSE /\ apiManager' = [apiManager EXCEPT !.apiKey = Trim(apiKey)]
            /\ IF storageOk
               THEN /\ storedApiKey' = apiManager'.apiKey
                    /\ ShowToast(KeySavedMessage, "success", 0)
               ELSE /\ ShowToast(SaveFailedMessage, "error", 0)
                    /\ UNCHANGED storedApiKey
    /\ UNCHANGED <<sourceText, targetText, detectedLanguage, translationStatus,
                   loadingShown, liveCheckbox, currentLanguages, languageSelects,
                   liveTranslateEnabled, debounceTimer, timers, calls, detectPending, detectText,
                   translationHistory, targetWrite, burst>>
    /\ UNCHANGED <<pipeOnlyVars, voice, utilVars>>

KeyNext ==
    \/ \E input \in KeyInputs : \E storageOk \in BOOLEAN :
          HandleSaveApiKey(input, storageOk)
    \/ \E req \in Requests : CallApi(req)

KeySpec == PipeInit /\ [][KeyNext]_vars

(***************************************************************************)
(* VoiceSpec: VoiceController and the voiceInputComplete listener.  It     *)
(* starts in a session in progress with any selection of VoicePairs in     *)
(* the selects; the selection stays as it is, and a call issued stays in   *)
(* flight (how calls settle is part of Spec and LangSpec).                 *)
(***************************************************************************)
\* values of the language selects; "fr" has no entry in the locale maps
VoiceLanguageCodes == {"auto", "en", "vi", "ja", "de", "zh", "fr"}

VoicePairs ==
    {[source |-> c, target |-> "en"] : c \in VoiceLanguageCodes}
    \cup {[source |-> "auto", target |-> c] : c \in VoiceLanguageCodes \ {"auto"}}

\* the final transcripts recognition may deliver
Transcripts == {<<"h", "i">>}

\* a synthesis mapping that leaves utterance.lang unset for "auto"
GetSynthesisLanguageAutoUnset(language) ==
    CASE language = "auto" -> ""
      [] language = "en" -> "en-US"
      [] language = "vi" -> "vi-VN"
      [] language = "ja" -> "ja-JP"
      [] language = "de" -> "de-DE"
      [] language = "zh" -> "zh-CN"
      [] OTHER -> "en-US"

\* VoiceController.#getRecognitionLanguage
GetRecognitionLanguage(sourceLanguage) ==
    IF sourceLanguage = "auto" THEN "en-US"
    ELSE CASE sourceLanguage = "en" -> "en-US"
           [] sourceLanguage = "vi" -> "vi-VN"
           [] sourceLanguage = "ja" -> "ja-JP"
           [] sourceLanguage = "de" -> "de-DE"
           [] sourceLanguage = "zh" -> "zh-CN"
           [] OTHER -> "en-US"

\* VoiceController.#getSynthesisLanguage
GetSynthesisLanguage(language) ==
    IF language = "auto" THEN "en-US"
    ELSE CASE language = "en" -> "en-US"
           [] language = "vi" -> "vi-VN"
           [] language = "ja" -> "ja-JP"
           [] language = "de" -> "de-DE"
           [] language = "zh" -> "zh-CN"
           [] OTHER -> "en-US"

ListeningMessage == <<"Listening...">>
StartFailedMessage == <<"Failed", "to", "start", "voice", "recognition">>
NoTextToPlayMessage(type) == <<"No", type, "text", "to", "play">>

VoiceInit ==
    /\ apiManager = ApiManagerConstructor(<<"s", "k", "-", "1">>)
    /\ pc = "idle"
    /\ request = NoRequest
    /\ payload = NoPayload
    /\ retryCount = 0
    /\ lastEvent = NoEvent
    /\ attempts = <<>>
    /\ trace = <<>>
    /\ outcome = NoOutcome
    /\ \E languages \in VoicePairs : SessionAfterCalls(languages)
    /\ DeviceInit

\* EventManager.handleVoiceInput: VoiceController.toggleVoiceInput with the
\* value of #source-language.  recognition.stop() ends an active recognition
\* later (onend); recognition.start() on a recognition already started throws.
HandleVoiceInput ==
    /\ IF voice.isListening
       THEN /\ voice' = [voice EXCEPT !.recognition = "stopping"]
            /\ UNCHANGED toast
       ELSE IF voice.recognition = "inactive"
       THEN /\ voice' = [voice EXCEPT
                            !.recognitionLang = GetRecognitionLanguage(languageSelects.source),
                            !.recognition = "starting"]
            /\ UNCHANGED toast
       ELSE /\ voice' = [voice EXCEPT
                            !.recognitionLang = GetRecognitionLanguage(languageSelects.source)]
            /\ ShowToast(StartFailedMessage, "error", 0)
    /\ UNCHANGED <<sourceText, targetText, detectedLanguage, translationStatus,
                   loadingShown, liveCheckbox, currentLanguages, languageSelects,
                   liveTranslateEnabled, debounceTimer, timers, calls, detectPending, detectText,
                   translationHistory, targetWrite, burst>>
    /\ UNCHANGED <<apiManager, pipeOnlyVars, storedApiKey, utilVars>>

\* recognition.onstart
RecognitionStarts ==
    /\ voice.recognition = "starting"
    /\ voice' = [voice EXCEPT !.recognition = "active", !.isListening = TRUE]
    /\ ShowToast(ListeningMessage, "info", 0)
    /\ UNCHANGED <<sourceText, targetText, detectedLanguage, translationStatus,
                   loadingShown, liveCheckbox, currentLanguages, languageSelects,
                   liveTranslateEnabled, debounceTimer, timers, calls, detectPending, detectText,
                   translationHistory, targetWrite, burst>>
    /\ UNCHANGED <<apiManager, pipeOnlyVars, storedApiKey, utilVars>>

\* EventManager's voiceInputComplete listener
VoiceInputComplete ==
    /\ IF liveCheckbox THEN DebounceTranslate ELSE UNCHANGED <<timers, debounceTimer>>
    /\ UNCHANGED <<loadingShown, translationStatus, calls, toast>>

\* recognition.onresult with a final transcript: it is written to
\* #source-text and voiceInputComplete is dispatched
RecognitionResult(transcript) ==
    /\ voice.recognition \in {"active", "stopping"}
    /\ transcript # <<>>
    /\ sourceText' = transcript
    /\ VoiceInputComplete
    /\ UNCHANGED <<targetText, detectedLanguage, liveCheckbox, currentLanguages,
                   languageSelects, liveTranslateEnabled, detectPending, detectText,
                   translationHistory, targetWrite, burst>>
    /\ UNCHANGED <<apiManager, pipeOnlyVars, deviceVars, utilVars>>

\* recognition.onend: the recognition ended by itself or after stop()
RecognitionEnds ==
    /\ voice.recognition \in {"active", "stopping"}
    /\ voice' = [voice EXCEPT !.recognition = "inactive", !.isListening = FALSE]
    /\ UNCHANGED <<sourceText, targetText, detectedLanguage, translationStatus,
                   loadingShown, liveCheckbox, currentLanguages, languageSelects,
                   liveTranslateEnabled, debounceTimer, timers, calls, detectPending, detectText,
                   translationHistory, toast, targetWrite, burst>>
    /\ UNCHANGED <<apiManager, pipeOnlyVars, storedApiKey, utilVars>>

\* EventManager.handlePlayText: VoiceController.playText up to speak()
HandlePlayText(type) ==
    LET text == IF type = "source" THEN Trim(sourceText) ELSE Trim(targetText)
        language == languageSelects[type] IN
    /\ IF text = <<>>
       THEN /\ ShowToast(NoTextToPlayMessage(type), "warning", 0)
            /\ UNCHANGED voice
       ELSE /\ voice' = [voice EXCEPT !.utteranceLang = GetSynthesisLanguage(language)]
            /\ UNCHANGED toast
    /\ UNCHANGED <<sourceText, targetText, detectedLanguage, translationStatus,
                   loadingShown, liveCheckbox, currentLanguages, languageSelects,
                   liveTranslateEnabled, debounceTimer, timers, calls, detectPending, detectText,
                   translationHistory, targetWrite, burst>>
    /\ UNCHANGED <<apiManager, pipeOnlyVars, storedApiKey, utilVars>>

VoiceNext ==
    \/ HandleVoiceInput
    \/ RecognitionStarts
    \/ \E transcript \in Transcripts : RecognitionResult(transcript)
    \/ RecognitionEnds
    \/ \E type \in {"source", "target"} : HandlePlayText(type)
    \/ HandleLiveTranslateToggle
    \/ HandleClear
    \/ DebounceTimerFires
    \/ Tick

VoiceSpec == VoiceInit /\ [][VoiceNext]_vars

(***************************************************************************)
(* HistorySpec: HistoryManager under addToHistory and clearHistory.  The   *)
(* n-th record added has a source text of n characters, so the order in    *)
(* which records were added can be read off their texts.                   *)
(***************************************************************************)
\* the number of the last record a behaviour adds
MaxRecordNumber == 45

\* the number of the newest record localStorage may hold at start
MaxStoredNumber == 25

\* the translation of the n-th record: as long as its source text, but every
\* 15th one is 90 characters longer, which is longer than a snippet
RecordTranslation(n) == TextOfLength(IF n % 15 = 0 THEN n + 90 ELSE n)

HistoryRecord(n) == HistoryItem(TextOfLength(n), RecordTranslation(n), "auto", "en")

RecordNumber(item) == Len(item.fullSourceText)

\* what JSON.parse(localStorage.getItem('translation-history')) || [] may
\* give: the records an earlier session left, newest first, at most
\* maxHistoryItems of them
StoredHistories ==
    {[i \in 1..p[2] |-> HistoryRecord(p[1] - i + 1)] :
        p \in {q \in (0..MaxStoredNumber) \X (0..MaxHistoryItems) : q[2] <= q[1]}}

HistoryClearedMessage == <<"History", "cleared">>

HistoryInit ==
    /\ apiManager \in {ApiManagerConstructor(k) : k \in StoredKeys}
    /\ pc = "idle"
    /\ request = NoRequest
    /\ payload = NoPayload
    /\ retryCount = 0
    /\ lastEvent = NoEvent
    /\ attempts = <<>>
    /\ trace = <<>>
    /\ outcome = NoOutcome
    /\ sourceText = <<>>
    /\ targetText = <<>>
    /\ detectedLanguage = <<>>
    /\ translationStatus = ""
    /\ loadingShown = FALSE
    /\ liveCheckbox = FALSE
    /\ currentLanguages = InitialLanguages
    /\ languageSelects = InitialLanguages
    /\ liveTranslateEnabled = FALSE
    /\ debounceTimer = 0
    /\ timers = {}
    /\ calls = <<>>
    /\ detectPending = 0
    /\ detectText = <<>>
    /\ translationHistory \in StoredHistories
    /\ toast = NoToast
    /\ targetWrite = NoWrite
    /\ burst = [age |-> DebounceMs + 1, fires |-> 0, calls |-> 0, live |-> FALSE,
                events |-> 0]
    /\ DeviceInit

\* the number of the record the next translationComplete event carries
NextRecordNumber(history) ==
    IF history = <<>> THEN 1 ELSE RecordNumber(history[1]) + 1

\* EventManager's translationComplete listener: HistoryManager.addToHistory
HandleTranslationComplete(text, translation, sourceLang, targetLang) ==
    /\ translationHistory' =
          AddToHistory(translationHistory, text, translation, sourceLang, targetLang)
    /\ UNCHANGED <<sourceText, targetText, detectedLanguage, translationStatus,
                   loadingShown, liveCheckbox, currentLanguages, languageSelects,
                   liveTranslateEnabled, debounceTimer, timers, calls, detectPending, detectText,
                   toast, targetWrite, burst>>
    /\ UNCHANGED <<apiManager, pipeOnlyVars, deviceVars, utilVars>>

\* HistoryManager.clearHistory: the history after the confirm dialog
ClearedHistory(history, confirmed) == IF confirmed THEN <<>> ELSE history

\* EventManager.handleClearHistory; confirmed: the answer to confirm()
HandleClearHistory(confirmed) ==
    /\ translationHistory' = ClearedHistory(translationHistory, confirmed)
    /\ IF confirmed
       THEN ShowToast(HistoryClearedMessage, "success", 0)
       ELSE UNCHANGED toast
    /\ UNCHANGED <<sourceText, targetText, detectedLanguage, translationStatus,
                   loadingShown, liveCheckbox, currentLanguages, languageSelects,
                   liveTranslateEnabled, debounceTimer, timers, calls, detectPending, detectText,
                   targetWrite, burst>>
    /\ UNCHANGED <<apiManager, pipeOnlyVars, deviceVars, utilVars>>

\* a click on the i-th history item: HistoryManager.loadHistoryItem and the
\* historyItemLoaded listener (records have ids that differ)
LoadHistoryItem(i) ==
    /\ i \in 1..Len(translationHistory)
    /\ sourceText' = translationHistory[i].fullSourceText
    /\ targetText' = translationHistory[i].fullTranslation
    /\ targetWrite' = NoWrite
    /\ UNCHANGED <<detectedLanguage, translationStatus, loadingShown, liveCheckbox,
                   currentLanguages, languageSelects, liveTranslateEnabled,
                   debounceTimer, timers, calls, detectPending, detectText,
                   translationHistory, toast, burst>>
    /\ UNCHANGED <<apiManager, pipeOnlyVars, deviceVars, utilVars>>

HistoryNext ==
    \/ \E i \in 1..MaxHistoryItems : LoadHistoryItem(i)
    \/ /\ NextRecordNumber(translationHistory) <= MaxRecordNumber
       /\ LET n == NextRecordNumber(translationHistory) IN
          HandleTranslationComplete(TextOfLength(n), RecordTranslation(n), "auto", "en")
    \/ \E confirmed \in BOOLEAN : HandleClearHistory(confirmed)

HistorySpec == HistoryInit /\ [][HistoryNext]_vars

(***************************************************************************)
(* Reading the trace of a pipeline request                                 *)
(***************************************************************************)
FetchCount(t) == Cardinality({i \in 1..Len(t) : t[i].e = "fetch"})

FetchesBefore(t, k) == Cardinality({i \in 1..(k - 1) : t[i].e = "fetch"})

AllAttemptsIn(classes) ==
    attempts # <<>> /\ \A i \in 1..Len(attempts) : attempts[i] \in classes

(***************************************************************************)
(* Claims on the request pipeline (PipeSpec)                               *)
(***************************************************************************)

\* C2, as stated: one pipeline request issues at most 3 network calls,
\* counting the first attempt.
C2_AtMostThreeNetworkCalls == FetchCount(trace) <= 3

\* C2, amended: one pipeline request issues at most 4 network calls, the first
\* attempt and maxRetries = 3 retries, under every sequence of 5xx responses
\* and connection failures (and of any other answers).
C2_AtMostFourNetworkCalls ==
    /\ FetchCount(trace) <= 4
    /\ FetchCount(trace) <= apiManager.maxRetries + 1
    /\ retryCount <= apiManager.maxRetries

\* C2 witness: four 5xx or connection failures used up all four calls.
C2_FourCallsMade ==
    /\ pc = "done"
    /\ FetchCount(trace) = 4
    /\ AllAttemptsIn({"5xx", "network"})
    /\ outcome.kind = "rejected"

\* C3, as stated: a 4xx response ends the request at once: it is the last
\* attempt, no retry and no backoff follow, and the failure carries the remote
\* error.message when there is one, else the status-derived message.
C3_ClientErrorFailsAtOnce ==
    \A i \in 1..Len(attempts) :
        attempts[i] = "4xx" =>
            /\ i = Len(attempts)
            /\ pc = "done"
            /\ outcome = Rejected(ErrorMessage(lastEvent))

\* C4, as stated: a timed-out attempt is retried with backoff while attempts
\* remain (here: while fewer than 3 attempts were made, which leaves attempts
\* under the claim's ceiling and under the code's).
C4_TimeoutRetriedWhileAttemptsRemain ==
    \A i \in 1..Len(attempts) :
        (attempts[i] = "timeout" /\ i < 3) =>
            (i < Len(attempts) \/ pc = "backoff")

\* C4, amended: an attempt that reaches the timeout is never retried: whatever
\* the attempt number it is the last attempt, the request fails at once with
\* the timeout error, and no backoff delay is waited after it.
C4_TimeoutReportedAtOnce ==
    \A i \in 1..Len(attempts) :
        attempts[i] = "timeout" =>
            /\ i = Len(attempts)
            /\ pc = "done"
            /\ outcome = Rejected(TimeoutMessage)
            /\ trace[Len(trace)] = FetchEvent

\* C4 witness: a retried request whose second attempt timed out.
C4_TimeoutAfterARetry ==
    /\ attempts = <<"network", "timeout">>
    /\ pc = "done"
    /\ retryCount = 1

\* C5: 5xx on attempts 1 and 2 and success on attempt 3 resolve to the third
\* attempt's result, with 1 s waited between attempts 1 and 2, 2 s between
\* attempts 2 and 3, and nothing before attempt 1.
C5_TwoServerErrorsThenSuccess ==
    (pc = "done" /\ attempts = <<"5xx", "5xx", "ok">>) =>
        /\ outcome = Resolved(ThenContent(request.op, lastEvent.content))
        /\ trace = <<FetchEvent, DelayEvent(1000), FetchEvent, DelayEvent(2000),
                     FetchEvent>>

\* C5 witness: such a request resolved to a translation.
C5_ThirdAttemptSucceeded ==
    /\ pc = "done"
    /\ attempts = <<"5xx", "5xx", "ok">>
    /\ request.op = "translate"
    /\ outcome.kind = "resolved"
    /\ outcome.value = <<"x", "i", "n">>

\* C6: retry i (0-indexed) is preceded by exactly one backoff delay, of
\* 2^i seconds, whatever caused the retry; the trace starts with a fetch and
\* no delay is waited after the final failed attempt.
C6_OneBackoffPerRetry ==
    /\ trace # <<>> => trace[1] = FetchEvent
    /\ \A k \in 2..Len(trace) :
          /\ trace[k].e = "fetch" => trace[k - 1].e = "delay"
          /\ trace[k].e = "delay" =>
                /\ trace[k - 1].e = "fetch"
                /\ trace[k].ms = (2 ^ (FetchesBefore(trace, k) - 1)) * 1000
    /\ pc = "done" /\ trace # <<>> => trace[Len(trace)].e = "fetch"
    /\ pc = "backoff" => trace[Len(trace)].e = "delay"
    /\ FetchCount(trace) = Len(attempts) + (IF pc = "fetching" THEN 1 ELSE 0)

\* C6 witness: three retries, caused by 5xx responses and by connection
\* failures, then the final failure.
C6_ThreeRetriesThenFailure ==
    /\ pc = "done"
    /\ outcome.kind = "rejected"
    /\ Len(trace) = 7
    /\ attempts[1] = "5xx"
    /\ attempts[2] = "network"
    /\ trace[6] = DelayEvent(4000)

\* C7, as stated: when every attempt fails transiently (timeout, connection
\* failure, 5xx), the caller gets no failure before the last permitted attempt
\* has failed (here: before the third, the smaller of the two ceilings).
C7_NoFailureBeforeLastAttempt ==
    (outcome.kind = "rejected" /\ AllAttemptsIn({"5xx", "network", "timeout"})) =>
        Len(attempts) >= 3

C7_SettledOnce ==
    /\ (pc = "done") <=> (outcome.kind # "none")
    /\ Len(attempts) <= 4
    /\ (outcome.kind = "rejected" /\ AllAttemptsIn({"5xx", "network"})) =>
          Len(attempts) = 4
    /\ (outcome.kind = "rejected" /\ attempts # <<>>
          /\ attempts[Len(attempts)] = "timeout") =>
          outcome.message = TimeoutMessage

\* C7, amended: every pipeline request resolves exactly once, to a success or
\* to one failure, after at most 4 attempts; when every attempt fails with a
\* 5xx response or a connection failure, the caller gets no failure before the
\* fourth attempt has failed; a timeout is reported at once.
C7_ResolvesExactlyOnce ==
    /\ []C7_SettledOnce
    /\ [][outcome.kind # "none" => outcome' = outcome]_vars
    /\ (pc # "idle") ~> (pc = "done")

\* C7 witness: four transient failures, then the one failure.
C7_FailureAfterFourthAttempt ==
    /\ outcome.kind = "rejected"
    /\ attempts = <<"network", "5xx", "5xx", "network">>

(***************************************************************************)
(* Claims on the coordinator (Spec)                                        *)
(***************************************************************************)

\* C1, as stated: once the calls issued have all resolved and the newest
\* one, B, succeeded, the output text is B's result and not the result of an
\* older call A that overlapped with B, whatever the order of arrival.
C1_LatestCallWins ==
    ( /\ Len(calls) >= 2
      /\ \A i \in 1..Len(calls) : calls[i].state # "pending"
      /\ calls[Len(calls)].state = "ok"
      /\ targetWrite # NoWrite ) =>
        targetText = ThenContent("translate",
                                 RemoteContent(calls[Len(calls)].text))

\* C8, as stated: with live mode enabled (and a credential held), once more
\* than 1000 ms have passed since the last input event of a burst, the burst
\* has triggered exactly one pipeline translate call.
C8_BurstIssuesExactlyOneCall ==
    (HasApiKey(apiManager) /\ burst.live /\ burst.age > DebounceMs) =>
        (burst.fires = 1 /\ burst.calls = 1)

C8_OneFiringPerBurst ==
    /\ Cardinality(timers) <= 1
    /\ burst.fires <= 1
    /\ burst.calls <= burst.fires
    /\ burst.live =>
          /\ burst.age < DebounceMs => burst.fires = 0
          /\ burst.age > DebounceMs => burst.fires = 1

C8_FiringBuildsCallFromBuffer ==
    burst'.fires > burst.fires =>
        IF Trim(sourceText) # <<>> /\ HasApiKey(apiManager)
        THEN /\ calls' = Append(calls, [text |-> Trim(sourceText),
                                        source |-> currentLanguages.source,
                                        target |-> currentLanguages.target,
                                        state |-> "pending"])
             /\ burst'.calls = burst.calls + 1
        ELSE /\ calls' = calls
             /\ burst'.calls = burst.calls

\* C8, amended: with live mode enabled, a burst of input events, each less
\* than 1000 ms after the previous one, makes the debounce timer fire exactly
\* once, 1000 ms after the last event and not once per event; that firing
\* issues exactly one pipeline translate call, built from the trimmed source
\* buffer at that moment, if that text is non-empty and a valid credential is
\* held, and no pipeline call otherwise.
C8_OneCallPerBurst ==
    /\ []C8_OneFiringPerBurst
    /\ [][C8_FiringBuildsCallFromBuffer]_vars

\* C8 witness: a burst of several events has issued its one call, built from
\* the last buffer state.
C8_BurstOfSeveralEventsIssuedOneCall ==
    /\ burst.live
    /\ burst.events = 2
    /\ burst.age > DebounceMs
    /\ burst.fires = 1
    /\ burst.calls = 1
    /\ sourceText = <<"h", "e", " ">>
    /\ calls # <<>>
    /\ calls[Len(calls)].text = <<"h", "e">>

\* C9, as stated: a manual translate request issues a pipeline call at once
\* and cancels the pending debounce timer.
C9_ManualTranslateCancelsTimer ==
    [][(HandleTranslate /\ Trim(sourceText) # <<>> /\ HasApiKey(apiManager)) =>
          /\ Len(calls') = Len(calls) + 1
          /\ calls'[Len(calls')].text = Trim(sourceText)
          /\ timers' = {}]_vars

\* C10, as stated: the failure of a call that a newer call has superseded
\* changes neither the output text nor the status and raises no notification.
C10_SupersededFailureDropped ==
    [][\A i \in 1..Len(calls) :
          (calls[i].state = "pending" /\ calls'[i].state = "failed" /\ i < Len(calls)) =>
              /\ targetText' = targetText
              /\ translationStatus' = translationStatus
              /\ toast' = toast]_vars

\* C11, as stated: a successful resolution of a call that a newer call has
\* superseded notifies no collaborator: it adds no history record.
C11_SupersededSuccessAddsNoHistory ==
    [][\A i \in 1..Len(calls) :
          (calls[i].state = "pending" /\ calls'[i].state = "ok" /\ i < Len(calls)) =>
              translationHistory' = translationHistory]_vars

(***************************************************************************)
(* Claims on the coordinator under language changes and swaps (LangSpec)   *)
(***************************************************************************)

\* C12: when the pipeline returns a failure to a translate call, the
\* coordinator clears the output text and sets the status to failed, and
\* leaves the language selection (selects and current pair), the live-mode
\* flag (checkbox and engine flag) and the source text as they were.
C12_FailureClearsOutputOnly ==
    [][\A i \in 1..Len(calls) :
          (calls[i].state = "pending" /\ calls'[i].state = "failed") =>
              /\ targetText' = <<>>
              /\ translationStatus' = "Translation failed"
              /\ currentLanguages' = currentLanguages
              /\ languageSelects' = languageSelects
              /\ liveTranslateEnabled' = liveTranslateEnabled
              /\ liveCheckbox' = liveCheckbox
              /\ sourceText' = sourceText]_vars

\* C12 witness: a call failed after an earlier call had filled the output:
\* the output is cleared, while live mode, a chosen source language and the
\* source text are still there.
C12_FailureClearedEarlierOutput ==
    /\ \E i \in 2..Len(calls) :
          /\ calls[i - 1].state = "ok"
          /\ calls[i].state = "failed"
          /\ toast.call = i
    /\ translationStatus = "Translation failed"
    /\ targetText = <<>>
    /\ sourceText = <<"h", "e", " ">>
    /\ liveTranslateEnabled
    /\ currentLanguages = [source |-> "vi", target |-> "en"]

\* C13: swapLanguages invoked while the source language is "auto" changes
\* neither text, neither selection nor the current pair, reports the refusal
\* to the user and issues no pipeline call (and arms no timer), with live
\* mode enabled or not.
C13_SwapAtAutoChangesNothing ==
    [][(HandleSwapLanguages
          /\ (languageSelects.source = "auto" \/ currentLanguages.source = "auto")) =>
              /\ sourceText' = sourceText
              /\ targetText' = targetText
              /\ languageSelects' = languageSelects
              /\ currentLanguages' = currentLanguages
              /\ calls' = calls
              /\ timers' = timers
              /\ toast' = [message |-> SwapRefusedMessage, type |-> "warning",
                           call |-> 0]]_vars

\* C13 witness: the refusal is on display with live mode enabled, text in
\* both buffers and the source language still "auto".
C13_SwapRefusedInLiveMode ==
    /\ toast.message = SwapRefusedMessage
    /\ liveTranslateEnabled
    /\ languageSelects.source = "auto"
    /\ currentLanguages = [source |-> "auto", target |-> "vi"]
    /\ sourceText = <<"h", "e", " ">>
    /\ targetText = EarlierTranslation

C14_SwapExchangesBothPairs ==
    (HandleSwapLanguages /\ languageSelects.source # "auto") =>
        /\ languageSelects'.source = languageSelects.target
        /\ languageSelects'.target = languageSelects.source
        /\ currentLanguages'.source = currentLanguages.target
        /\ currentLanguages'.target = currentLanguages.source
        /\ sourceText' = targetText
        /\ targetText' = sourceText

\* C14: swapLanguages invoked while the source language is not "auto"
\* exchanges the two language selections and the two text buffers in one
\* step; no state shows the selects and the current pair apart, so no other
\* event sees only one of the pairs exchanged.
C14_SwapIsOneStep ==
    /\ [][C14_SwapExchangesBothPairs]_vars
    /\ [](languageSelects = currentLanguages)

\* C14 witness: after a swap of (vi, en): the source side holds the earlier
\* translation and "en", the target side the earlier source text and "vi".
C14_Swapped ==
    /\ languageSelects = [source |-> "en", target |-> "vi"]
    /\ currentLanguages = [source |-> "en", target |-> "vi"]
    /\ sourceText = EarlierTranslation
    /\ targetText = EarlierText

\* C15: a change of the source or target language stores the new pair and
\* arms no timer; with live mode enabled and source text that is not empty it
\* calls translateText at once, which issues the pipeline call for the new
\* pair (or, without a valid credential, refuses with a notification); with
\* live mode disabled or empty source text it issues no call.
C15_LanguageChangeTranslatesAtOnce ==
    [][\A c \in LanguageChoices :
          HandleLanguageChange(c[1], c[2]) =>
              /\ currentLanguages'[c[1]] = c[2]
              /\ \A side \in {"source", "target"} \ {c[1]} :
                    currentLanguages'[side] = currentLanguages[side]
              /\ timers' = timers
              /\ debounceTimer' = debounceTimer
              /\ IF liveCheckbox /\ liveTranslateEnabled /\ Trim(sourceText) # <<>>
                 THEN IF HasApiKey(apiManager)
                      THEN calls' = Append(calls,
                                           [text |-> Trim(sourceText),
                                            source |-> currentLanguages'.source,
                                            target |-> currentLanguages'.target,
                                            state |-> "pending"])
                      ELSE calls' = calls /\ toast'.message = SetKeyMessage
                 ELSE calls' = calls /\ toast' = toast]_vars

\* C15 witness: in live mode, with the debounce timeout of the last input
\* still pending, the call for the newly chosen pair (auto, vi) is in flight.
C15_CallForNewPairInFlight ==
    /\ liveCheckbox
    /\ timers # {}
    /\ calls # <<>>
    /\ calls[Len(calls)] = [text |-> <<"h", "e">>, source |-> "auto",
                            target |-> "vi", state |-> "pending"]
    /\ currentLanguages = [source |-> "auto", target |-> "vi"]

(***************************************************************************)
(* Claims on ApiManager's local checks and results (PipeSpec)              *)
(***************************************************************************)
AllSpaces(text) == \A i \in 1..Len(text) : text[i] = Space

\* C16, as stated: translateText and detectLanguage called with text that is
\* empty or only whitespace fail with the invalid-input error of the
\* operation and issue no network call.
C16_BlankTextIsInvalidInput ==
    (request.op # "none" /\ AllSpaces(request.text)) =>
        /\ pc = "done"
        /\ outcome = Rejected(NoTextMessage(request.op))
        /\ trace = <<>>

\* C16, amended: called with text that is empty or only whitespace, both
\* operations fail at once and issue no network call; the failure is the
\* invalid-input error of the operation when a valid credential is held, and
\* the unauthenticated error otherwise, since the credential is tested first.
C16_BlankTextFailsLocally ==
    (request.op # "none" /\ AllSpaces(request.text)) =>
        /\ pc = "done"
        /\ trace = <<>>
        /\ attempts = <<>>
        /\ outcome = IF HasApiKey(apiManager)
                     THEN Rejected(NoTextMessage(request.op))
                     ELSE Rejected(NoKeyMessage)

\* C16 witness: with a valid credential, detectLanguage of a whitespace-only
\* text failed with its invalid-input error and no network call.
C16_WhitespaceDetectRejected ==
    /\ HasApiKey(apiManager)
    /\ request.op = "detect"
    /\ request.text = <<" ">>
    /\ outcome = Rejected(<<"Text", "is", "required", "for", "language", "detection">>)
    /\ trace = <<>>

\* C17: called while the credential is absent or structurally invalid (empty,
\* or not starting with "sk-"), translateText and detectLanguage fail with the
\* unauthenticated error and issue no network call, whatever the text.
C17_NoCredentialIsUnauthenticated ==
    (request.op # "none"
        /\ (apiManager.apiKey = <<>> \/ ~StartsWith(Trim(apiManager.apiKey), KeyPrefix))) =>
        /\ pc = "done"
        /\ outcome = Rejected(<<"API", "key", "not", "set", "or", "invalid">>)
        /\ trace = <<>>
        /\ attempts = <<>>

\* C17 witness: a stored key without the prefix, and a request with text,
\* rejected without a network call.
C17_UnprefixedKeyRejected ==
    /\ apiManager.apiKey = <<"k", "1">>
    /\ request.op = "translate"
    /\ request.text = <<"h", "i">>
    /\ outcome.kind = "rejected"
    /\ outcome.message = NoKeyMessage
    /\ trace = <<>>

\* value is content without its leading and trailing spaces
IsTrimOf(value, content) ==
    /\ value # <<>> => (value[1] # Space /\ value[Len(value)] # Space)
    /\ \E lead \in 0..Len(content) :
          /\ lead + Len(value) <= Len(content)
          /\ \A i \in 1..Len(content) :
                content[i] = IF i <= lead \/ i > lead + Len(value)
                             THEN Space ELSE value[i - lead]

\* C20: on a successful response, translate resolves to the first choice's
\* message content without its surrounding whitespace; content that is empty
\* or only whitespace gives a success with the empty string, not a failure.
C20_TranslateResolvesToTrimmedContent ==
    (pc = "done" /\ request.op = "translate" /\ lastEvent.kind = "response"
        /\ lastEvent.status = 200 /\ lastEvent.jsonOk) =>
        /\ outcome.kind = "resolved"
        /\ IsTrimOf(outcome.value, lastEvent.content)
        /\ AllSpaces(lastEvent.content) => outcome = Resolved(<<>>)

\* C20 witness: a whitespace-only content resolved to the empty string.
C20_WhitespaceContentResolvedEmpty ==
    /\ pc = "done"
    /\ request.op = "translate"
    /\ lastEvent.status = 200
    /\ lastEvent.content = <<" ">>
    /\ outcome.kind = "resolved"
    /\ outcome.value = <<>>

(***************************************************************************)
(* Claims on the request bodies (PayloadSpec)                              *)
(***************************************************************************)

C19_DetectSendsFirst500 ==
    (request.op = "detect" /\ pc = "fetching") =>
        /\ payload.op = "detect"
        /\ Len(payload.content) = IF Len(request.text) > 500
                                  THEN 500 ELSE Len(request.text)
        /\ \A i \in 1..Len(payload.content) : payload.content[i] = request.text[i]
        /\ payload.max_tokens <= 10

\* C19 witness: an input of 600 characters was sent as its first 500.
C19_LongInputTruncated ==
    /\ request.op = "detect"
    /\ pc = "fetching"
    /\ Len(request.text) = 600
    /\ Len(payload.content) = 500
    /\ payload.content[500] = request.text[500]
    /\ trace = <<FetchEvent>>

(***************************************************************************)
(* Claims on what a request leaves alone (PipeSpec)                        *)
(***************************************************************************)
\* C21: every step of a pipeline request (the call with its local checks,
\* a settled attempt of any class, an elapsed backoff delay), whatever the
\* outcome and the number of retries, leaves the ApiManager's credential, base
\* URL, timeout and max-retry setting, and the persisted credential, unchanged.
C21_RequestLeavesApiManagerUnchanged ==
    [][PipeNext =>
          /\ apiManager'.apiKey = apiManager.apiKey
          /\ apiManager'.baseUrl = apiManager.baseUrl
          /\ apiManager'.requestTimeout = apiManager.requestTimeout
          /\ apiManager'.maxRetries = apiManager.maxRetries
          /\ storedApiKey' = storedApiKey]_vars

\* C21 witness: a request failed after three retries and the ApiManager is as
\* constructed from the stored key.
C21_UnchangedAfterRetries ==
    /\ pc = "done"
    /\ retryCount = 3
    /\ FetchCount(trace) = 4
    /\ outcome.kind = "rejected"
    /\ apiManager = ApiManagerConstructor(<<"s", "k", "-", "1">>)
    /\ storedApiKey = <<"s", "k", "-", "1">>

\* C22, as stated: whether a failed attempt is retried, and after which delay,
\* depends on the attempt number and the error class (4xx, 5xx, connection
\* failure, timeout) only: every settled fetch of the class of the latest
\* attempt, whatever its error message text, would have got the decision the
\* running frame took.
C22_DecisionIgnoresMessageText ==
    (pc \in {"backoff", "done"} /\ attempts # <<>>
     /\ AttemptClass(lastEvent) \in {"4xx", "5xx", "network", "timeout"}) =>
        \A ev \in ErrorResponses \cup NetworkRejections \cup {AbortRejection} :
            AttemptClass(ev) = AttemptClass(lastEvent) =>
                LET taken == MakeApiRequest(lastEvent, retryCount, apiManager.maxRetries)
                    other == MakeApiRequest(ev, retryCount, apiManager.maxRetries) IN
                /\ (pc = "backoff") = (other.do = "retry")
                /\ taken.delay = other.delay

(***************************************************************************)
(* Claims on calls in flight, failures and refusals (Spec, LangSpec)       *)
(***************************************************************************)
PendingCalls == {i \in 1..Len(calls) : calls[i].state = "pending"}

\* C23: an input event with live mode on that arrives while an earlier
\* pipeline call is unresolved arms the debounce timer as usual (one pending
\* timeout of the full delay), and when a timeout elapses while a call is
\* unresolved, a new pipeline call is issued for the text then in the buffer
\* and the earlier call stays unresolved.
C23_NoWaitForCallInFlight ==
    [][PendingCalls # {} =>
          /\ \A text \in SourceTexts :
                (HandleSourceTextInput(text) /\ liveCheckbox /\ liveTranslateEnabled) =>
                    /\ timers' = {[id |-> debounceTimer', ms |-> DebounceMs]}
                    /\ calls' = calls
          /\ (DebounceTimerFires /\ Trim(sourceText) # <<>> /\ HasApiKey(apiManager)) =>
                /\ calls' = Append(calls, [text |-> Trim(sourceText),
                                           source |-> currentLanguages.source,
                                           target |-> currentLanguages.target,
                                           state |-> "pending"])
                /\ \A i \in PendingCalls : calls'[i].state = "pending"]_vars

\* C23 witness: the timeout armed by an input made during the first call has
\* elapsed: the call it issued for the new text and the first call are both
\* unresolved.
C23_TwoCallsInFlight ==
    /\ Len(calls) = 2
    /\ calls[1].state = "pending"
    /\ calls[2].state = "pending"
    /\ calls[1].text = <<"h">>
    /\ calls[2].text = <<"h", "e">>
    /\ burst.live
    /\ burst.fires = 1
    /\ burst.calls = 1
    /\ timers = {}

\* C24: translateText never propagates a pipeline failure: the call that
\* fails ends in the failed state with the status "Translation failed", the
\* loading indicator hidden and an error notification carrying the failure;
\* and after a failure a translate request with text that is not empty and a
\* valid credential issues a new pipeline call.
C24_FailureIsReportedNotPropagated ==
    [][/\ \A i \in 1..Len(calls) :
             (calls[i].state = "pending" /\ calls'[i].state = "failed") =>
                 /\ translationStatus' = "Translation failed"
                 /\ loadingShown' = FALSE
                 /\ toast'.type = "error"
                 /\ toast'.call = i
                 /\ \E out \in TranslateOutcomes(calls[i].text) :
                       /\ out.kind = "rejected"
                       /\ toast'.message = FailedMessage(out.message)
       /\ (/\ HandleTranslate
           /\ \E i \in 1..Len(calls) : calls[i].state = "failed"
           /\ Trim(sourceText) # <<>>
           /\ HasApiKey(apiManager)) =>
              calls' = Append(calls, [text |-> Trim(sourceText),
                                      source |-> currentLanguages.source,
                                      target |-> currentLanguages.target,
                                      state |-> "pending"])]_vars

\* C24 witness: the first call failed and its error notification is still
\* shown; the Translate button then issued a second call, now in flight.
C24_NewCallAfterFailure ==
    /\ Len(calls) = 2
    /\ calls[1].state = "failed"
    /\ calls[2].state = "pending"
    /\ toast = [message |-> FailedMessage(TimeoutMessage), type |-> "error", call |-> 1]
    /\ translationStatus = "Translating..."
    /\ loadingShown
    /\ ~liveCheckbox
    /\ timers = {}

\* C29: translateText called with source text that is empty after trimming,
\* or without a valid credential, issues no pipeline call and leaves the
\* target text, the status and the loading indicator as they were; it only
\* raises a notification (a warning for the text, an error for the key).
C29_RefusalOnlyNotifies ==
    [][((HandleTranslate \/ DebounceTimerFires)
        /\ (Trim(sourceText) = <<>> \/ ~HasApiKey(apiManager))) =>
          /\ calls' = calls
          /\ targetText' = targetText
          /\ targetWrite' = targetWrite
          /\ translationStatus' = translationStatus
          /\ loadingShown' = loadingShown
          /\ toast' = IF Trim(sourceText) = <<>>
                      THEN [message |-> EnterTextMessage, type |-> "warning", call |-> 0]
                      ELSE [message |-> SetKeyMessage, type |-> "error", call |-> 0]]_vars

\* C29 witness: with a valid credential and the result of an earlier call
\* on screen, translateText was refused for an empty source text: the warning
\* is shown, the output and the status are those of the earlier call.
C29_RefusedWithEarlierResultShown ==
    /\ HasApiKey(apiManager)
    /\ sourceText = <<>>
    /\ toast = [message |-> EnterTextMessage, type |-> "warning", call |-> 0]
    /\ targetText = <<"~", "h">>
    /\ translationStatus = "Translation completed"
    /\ ~loadingShown
    /\ Len(calls) = 1

\* C30: switching live mode on while the source text is not empty calls
\* translateText at once, which issues the pipeline call for that text (or,
\* without a valid credential, refuses with a notification) and arms no
\* timer; switching live mode on with empty source text, or switching it off,
\* issues no call and raises nothing.
C30_LiveOnTranslatesAtOnce ==
    [][HandleLiveTranslateToggle =>
          /\ liveTranslateEnabled' = ~liveCheckbox
          /\ timers' = timers
          /\ IF ~liveCheckbox /\ Trim(sourceText) # <<>>
             THEN IF HasApiKey(apiManager)
                  THEN calls' = Append(calls, [text |-> Trim(sourceText),
                                               source |-> currentLanguages.source,
                                               target |-> currentLanguages.target,
                                               state |-> "pending"])
                  ELSE calls' = calls /\ toast'.message = SetKeyMessage
             ELSE calls' = calls /\ toast' = toast]_vars

\* C30 witness: live mode was switched on over the text "he ": the call for
\* it is in flight and no timeout is pending.
C30_CallIssuedBySwitchingOn ==
    /\ liveCheckbox
    /\ liveTranslateEnabled
    /\ timers = {}
    /\ sourceText = <<"h", "e", " ">>
    /\ Len(calls) = MaxCalls
    /\ calls[MaxCalls] = [text |-> <<"h", "e">>, source |-> "auto", target |-> "en",
                          state |-> "pending"]
    /\ loadingShown

(***************************************************************************)
(* Claims on the history (HistorySpec)                                     *)
(***************************************************************************)
\* records in the order newest first: each was added after the next one
NewestFirst(history) ==
    \A i \in 1..(Len(history) - 1) :
        RecordNumber(history[i]) > RecordNumber(history[i + 1])

\* C25: from a history of at most 20 records, every addToHistory and every
\* clearHistory leaves at most 20 records, newest first; addToHistory puts
\* the new record first, followed by the earlier records in their order, and
\* when the history was full it drops the oldest record and keeps the 19
\* newest earlier ones.
C25_HistoryBoundedNewestFirst ==
    [][/\ Len(translationHistory') <= 20
       /\ NewestFirst(translationHistory')
       /\ LET n == NextRecordNumber(translationHistory) IN
             HandleTranslationComplete(TextOfLength(n), RecordTranslation(n), "auto", "en") =>
                 LET kept == IF Len(translationHistory) >= 20 THEN 19
                             ELSE Len(translationHistory) IN
                 /\ translationHistory'[1] = HistoryRecord(n)
                 /\ Len(translationHistory') = kept + 1
                 /\ \A i \in 1..kept : translationHistory'[i + 1] = translationHistory[i]
       /\ (HandleClearHistory(TRUE) /\ translationHistory # <<>>) =>
             translationHistory' = <<>>]_vars

\* C25 witness: records were added to a full history until the newest is
\* the 45th and the oldest kept is the 26th: no record an earlier session
\* left is among the 20.
C25_FullHistoryRolledOver ==
    /\ Len(translationHistory) = 20
    /\ RecordNumber(translationHistory[1]) = 45
    /\ RecordNumber(translationHistory[20]) = 26
    /\ toast = NoToast

\* C33: the record created for a completed translation keeps the full
\* source text and the full translation, and its snippets are their first
\* 100 characters (the whole text when it is shorter); loading a record
\* writes its full source text and full translation into the source and
\* target buffers and leaves the history list, the current pair and the
\* selects as they were.
C33_RecordKeepsFullTextsAndLoadsThem ==
    [][/\ LET n == NextRecordNumber(translationHistory) IN
             HandleTranslationComplete(TextOfLength(n), RecordTranslation(n), "auto", "en") =>
                 LET item == translationHistory'[1] IN
                 /\ item.fullSourceText = TextOfLength(n)
                 /\ item.fullTranslation = RecordTranslation(n)
                 /\ Len(item.sourceText) = Min(n, 100)
                 /\ Len(item.translation) = Min(Len(RecordTranslation(n)), 100)
                 /\ \A k \in 1..Len(item.sourceText) :
                       item.sourceText[k] = item.fullSourceText[k]
                 /\ \A k \in 1..Len(item.translation) :
                       item.translation[k] = item.fullTranslation[k]
       /\ \A i \in 1..Len(translationHistory) :
             LoadHistoryItem(i) =>
                 /\ sourceText' = translationHistory[i].fullSourceText
                 /\ targetText' = translationHistory[i].fullTranslation
                 /\ translationHistory' = translationHistory
                 /\ currentLanguages' = currentLanguages
                 /\ languageSelects' = languageSelects]_vars

\* C33 witness: the 30th record, added in this session, was loaded: the
\* target buffer holds its full translation of 120 characters, of which the
\* record's snippet holds the first 100.
C33_LongTranslationLoadedInFull ==
    /\ sourceText = TextOfLength(30)
    /\ targetText = TextOfLength(120)
    /\ \E i \in 1..Len(translationHistory) :
          /\ translationHistory[i].fullTranslation = targetText
          /\ translationHistory[i].translation = TextOfLength(100)
    /\ RecordNumber(translationHistory[1]) = 35

(***************************************************************************)
(* Claims on saving the API key (KeySpec)                                  *)
(***************************************************************************)
\* C27, as stated: saveApiKey either accepts the key or raises an error.  It
\* accepts only a key that, trimmed, is not empty and starts with the prefix;
\* the accepted key is held and persisted trimmed and hasApiKey() is true
\* afterwards.  When it raises an error, the held and the persisted
\* credential are as they were.
C27_SaveAcceptsOrLeavesUnchanged ==
    [][\A input \in KeyInputs : \A storageOk \in BOOLEAN :
          HandleSaveApiKey(input, storageOk) =>
              IF toast'.type = "success"
              THEN /\ Trim(input) # <<>>
                   /\ StartsWith(Trim(input), KeyPrefix)
                   /\ apiManager'.apiKey = Trim(input)
                   /\ storedApiKey' = Trim(input)
                   /\ HasApiKey(apiManager')
              ELSE /\ toast'.type = "error"
                   /\ apiManager'.apiKey = apiManager.apiKey
                   /\ storedApiKey' = storedApiKey]_vars

\* C40, as stated: whenever saveApiKey raises an error the held credential
\* is the one held before the call; so the held credential always equals the
\* credential persisted last (or the one loaded at start).
C40_HeldKeyIsPersistedKey ==
    apiManager.apiKey = storedApiKey

(***************************************************************************)
(* Claims on voice input and speech output (VoiceSpec)                     *)
(***************************************************************************)
\* the locale table of the two mappings
Locale(code) ==
    CASE code = "en" -> "en-US"
      [] code = "vi" -> "vi-VN"
      [] code = "ja" -> "ja-JP"
      [] code = "de" -> "de-DE"
      [] code = "zh" -> "zh-CN"
      [] OTHER -> "en-US"

\* C26: recognition started for a source code and an utterance created for a
\* code get the same locale: en, vi, ja, de and zh give en-US, vi-VN, ja-JP,
\* de-DE and zh-CN, and "auto" and every other code give en-US.
C26_LocaleMappingsAgree ==
    [][/\ (HandleVoiceInput /\ ~voice.isListening) =>
              voice'.recognitionLang = Locale(languageSelects.source)
       /\ \A type \in {"source", "target"} :
             (HandlePlayText(type) /\ voice' # voice) =>
                 voice'.utteranceLang = Locale(languageSelects[type])
       /\ \A side \in {"source", "target"} :
             GetRecognitionLanguage(languageSelects[side])
                 = GetSynthesisLanguage(languageSelects[side])]_vars

\* C26 witness: with the source select at "auto", recognition is active with
\* lang en-US and the source text was played with an utterance of lang en-US,
\* while the target select holds "zh".
C26_AutoHeardAndSpokenAsEnglish ==
    /\ languageSelects = [source |-> "auto", target |-> "zh"]
    /\ voice.isListening
    /\ voice.recognition = "active"
    /\ voice.recognitionLang = "en-US"
    /\ voice.utteranceLang = "en-US"

\* C28, as stated: a final transcript written to the source text with live
\* mode enabled issues the pipeline call for it in that step, with no timeout
\* armed (here: while the model's call budget lasts); with live mode disabled
\* it issues no call and arms no timeout.
C28_TranscriptTranslatesInstantly ==
    [][\A transcript \in Transcripts :
          (RecognitionResult(transcript) /\ Len(calls) < MaxCalls) =>
              IF liveCheckbox
              THEN /\ calls' = Append(calls, [text |-> Trim(transcript),
                                              source |-> currentLanguages.source,
                                              target |-> currentLanguages.target,
                                              state |-> "pending"])
                   /\ timers' = timers
              ELSE /\ calls' = calls
                   /\ timers' = timers]_vars

(***************************************************************************)
(* Claims on what a resolving call finds changed (LangSpec, Spec)          *)
(***************************************************************************)
\* C34, as stated: the history record added when a call resolves names the
\* source and target language sent with that call's request, also when the
\* pair was changed or swapped while the call was in flight.
C34_RecordNamesRequestLanguages ==
    [][\A i \in 1..Len(calls) :
          (calls[i].state = "pending" /\ calls'[i].state = "ok") =>
              /\ translationHistory' # <<>>
              /\ translationHistory'[1].fullSourceText = calls[i].text
              /\ translationHistory'[1].sourceLang = LanguageNames(calls[i].source)
              /\ translationHistory'[1].targetLang = LanguageNames(calls[i].target)]_vars

\* C35, as stated: the loading indicator is shown exactly while at least one
\* translate call is unresolved.
C35_LoadingShownWhileCallsPending ==
    loadingShown <=> PendingCalls # {}

\* C36, as stated: with live mode disabled, an input event arms no timeout,
\* and a timeout that fires (armed before live mode was switched off) issues
\* no call.
C36_NoDebouncedCallWhileLiveOff ==
    [][(~liveCheckbox /\ ~liveTranslateEnabled) =>
          /\ \A text \in SourceTexts :
                HandleSourceTextInput(text) => timers' = timers
          /\ DebounceTimerFires => calls' = calls]_vars

\* C37, as stated: after clearText both texts are empty, and until a call
\* issued after the clear succeeds the target text stays empty and no
\* notification is raised: not when a call in flight at the clear settles,
\* not when a timeout armed before the clear fires.  (The status is "" only
\* from clearText on until the next call is issued, so every call pending
\* while the status is "" was issued before the clear.)
C37_ClearIsNotUndone ==
    [][/\ HandleClear => (sourceText' = <<>> /\ targetText' = <<>>)
       /\ translationStatus = "" =>
             /\ \A i \in 1..Len(calls) :
                   (calls[i].state = "pending" /\ calls'[i].state # "pending") =>
                       (targetText' = <<>> /\ toast' = toast)
             /\ (DebounceTimerFires /\ calls' = calls) => toast' = toast]_vars

C38_CurrentPairIsSelectedPair ==
    /\ [](currentLanguages = languageSelects)
    /\ [][Len(calls') = Len(calls) + 1 =>
             /\ calls'[Len(calls')].source = languageSelects'.source
             /\ calls'[Len(calls')].target = languageSelects'.target
             /\ calls'[Len(calls')].state = "pending"]_vars

\* C38 witness: after a change of the source language to "vi" and a swap,
\* the selects and the current pair are (en, vi), and the call issued then
\* for the swapped text carries that pair.
C38_CallCarriesSwappedPair ==
    /\ languageSelects = [source |-> "en", target |-> "vi"]
    /\ currentLanguages = [source |-> "en", target |-> "vi"]
    /\ Len(calls) = MaxCalls
    /\ calls[MaxCalls] = [text |-> <<"~", "h">>, source |-> "en", target |-> "vi",
                          state |-> "pending"]

\* C39: with live translation disabled, no call in flight and neither language
\* "auto", two consecutive swapLanguages calls restore the source text, the
\* target text and both language selections: after the second swap of a pair
\* the buffers and the selects are what they were before the first.
C39_TwoSwapsRestore ==
    (/\ swapLog.n = 2
     /\ Snapshot = swapLog.after
     /\ ~liveTranslateEnabled
     /\ PendingCalls = {}
     /\ swapLog.before.selects.source # "auto"
     /\ swapLog.before.selects.target # "auto")
        => Snapshot = swapLog.before

\* an edited source text and the earlier translation, swapped and swapped back
C39_SwappedTwice ==
    /\ swapLog.n = 2
    /\ Snapshot = swapLog.before
    /\ swapLog.after = Snapshot
    /\ languageSelects = [source |-> "vi", target |-> "en"]
    /\ sourceText = <<"h", "e", " ">>
    /\ targetText = EarlierTranslation
    /\ ~liveTranslateEnabled
    /\ PendingCalls = {}

\* C32: a function wrapped by PerformanceUtils.debounce(func, wait, immediate).
\* With immediate false func runs exactly once per burst of calls, wait ms
\* after the last call of the burst and with that call's arguments: it runs
\* only from the timeout, with wait ms gone since the latest call and that
\* call's arguments, once; no timeout outlives the wait; and a burst that is
\* over had its run. With immediate true func runs on the first call of a
\* burst and not again until wait ms have passed without a call: it runs only
\* in a call, with that call's arguments, when it is the first call or at least
\* wait ms after the call before, and it does run in a call that comes more
\* than wait ms after the call before.
C32_DebouncedRunsOncePerBurst ==
    /\ debounced.runs <= 1
    /\ debounced.sinceCall > WaitMs => debounced.pending = {}
    /\ ~debounced.immediate =>
          /\ debounced.ran =>
                /\ debounced.last = "later"
                /\ debounced.sinceCall = WaitMs
                /\ debounced.lastRun = debounced.lastArgs
                /\ debounced.runs = 1
          /\ (debounced.called /\ debounced.pending = {}) => debounced.runs = 1
    /\ debounced.immediate =>
          /\ debounced.ran =>
                /\ debounced.last = "call"
                /\ debounced.lastRun = debounced.lastArgs
                /\ debounced.gap >= WaitMs
                /\ debounced.runs = 1
          /\ (debounced.last = "call" /\ debounced.gap > WaitMs) => debounced.ran
          /\ debounced.called => debounced.runs = 1

\* a burst of calls a tick apart, the last one with "b": func has just run with
\* "b", once, wait ms after that call
C32_RanAfterBurstWithLastArgs ==
    /\ ~debounced.immediate
    /\ debounced.ran
    /\ debounced.last = "later"
    /\ debounced.gap = TickMs
    /\ debounced.lastArgs = "b"
    /\ debounced.lastRun = "b"
    /\ debounced.sinceCall = WaitMs
    /\ debounced.runs = 1
    /\ debounced.pending = {}

====
